---- MODULE Spec2Model ----
(***************************************************************************)
(* A model of the cyberpower_pdu package: the SNMP client of async_api.py, *)
(* the Telnet client of telnet_api.py, and the facade of __init__.py with  *)
(* its simulated and hardware sessions, each run against a modelled PDU.   *)
(* One behaviour constructs one client object (variable client) and then   *)
(* calls its operations one after the other.                               *)
(***************************************************************************)
EXTENDS Integers, Sequences, FiniteSets, TLC

VARIABLES
    client,             \* the class constructed in this behaviour
    session,            \* CyberPowerPDU.__session: the class the facade selected
    number_of_outlets,  \* the client's __number_of_outlets
    number_of_banks,    \* AsyncCyberPowerPDUHardware.__number_of_banks
    outlet_states,      \* CyberPowerPDUSimulation.__outlet_states
    conn,               \* Telnet connection: "unset", "open" or "closed"
    reader,             \* Telnet: chunks the device sent, not yet read
    writer,             \* Telnet: lines written, not yet processed by the device
    pc,                 \* position of the running coroutine ("idle": none)
    call,               \* the running or the last call, with its wire log
    initialized,        \* history: an initialize() has returned normally
    closed,             \* history: a close() has returned since initialize()
    dev_n,              \* device: number of outlets it has
    dev_on,             \* device: outlet -> energized
    dev_pending,        \* device: accepted commands not yet applied
    dev_login,          \* device: state of its Telnet login dialogue
    dev_case,           \* device: how its outlet table spells On and Off
    dev_named,          \* device: the outlets whose name the operator has changed
    SIMULATE_HARDWARE,  \* gui.py: the module's switch, passed as simulate
    gui_state,          \* window: the state of its QStateMachine
    gui_tasks,          \* window: attempt -> where its try_ip_address task is
    gui_pdu,            \* window: the attempt whose CyberPowerPDU __pdu holds (0: unset)
    gui_number_of_outlets, \* window: its __number_of_outlets
    gui_enabled,        \* window: the outlet controls 1 .. gui_enabled are enabled
    gui_polling,        \* window: attempt -> the get_outlet_statuses task its success started
    gui_checked,        \* window: the outlet controls whose LED is checked
    gui_clicks,         \* window: click -> its send_outlet_command task and timers
    pdu_on,             \* the held simulated session: its outlets that are on
    pdu_initialized,    \* attempt -> the initialize() of its object has returned
    pdu_count,          \* attempt -> the count its object's session has stored
    tasks,              \* concurrent callers: task -> its call, as in call
    exchange,           \* task -> the datagram exchange its call has open
    answered            \* history: task -> what the device answered it last

vars == <<client, session, number_of_outlets, number_of_banks, outlet_states,
          conn, reader, writer, pc, call, initialized, closed,
          dev_n, dev_on, dev_pending, dev_login, dev_case, dev_named,
          SIMULATE_HARDWARE, gui_state, gui_tasks, gui_pdu, gui_number_of_outlets,
          gui_enabled, gui_polling, gui_checked, gui_clicks, pdu_on,
          pdu_initialized, pdu_count,
          tasks, exchange, answered>>

\* The window of gui.py, one more user of the facade
guiVars == <<SIMULATE_HARDWARE, gui_state, gui_tasks, gui_pdu, gui_number_of_outlets,
             gui_enabled, gui_polling, gui_checked, gui_clicks, pdu_on,
             pdu_initialized, pdu_count>>
\* The callers that share one session
taskVars == <<tasks, exchange, answered>>
clientVars == <<client, session, guiVars, taskVars>>
libVars == <<client, session, number_of_outlets, number_of_banks, outlet_states,
             conn, reader, writer, pc, call, initialized, closed,
             dev_n, dev_on, dev_pending, dev_login, dev_case, dev_named, taskVars>>
devVars == <<dev_n, dev_on, dev_pending, dev_login, dev_case, dev_named>>
telnetVars == <<conn, reader, writer>>
streamVars == <<pc, reader, writer>>

----------------------------------------------------------------------------
(* Bounds of the model *)

MaxOutlets == 2
DeviceBanks == 1
MaxStream == 2
MaxLog == 9

(* Program constants *)

SimulatedOutlets == 16

----------------------------------------------------------------------------
(* Data types *)

OutletCommand == {"IMMEDIATE_ON", "IMMEDIATE_OFF", "IMMEDIATE_REBOOT"}

\* Mutant: the values of on and off exchanged
CommandValueSwapped(command) ==
    CASE command = "IMMEDIATE_ON" -> 2
      [] command = "IMMEDIATE_OFF" -> 1
      [] command = "IMMEDIATE_REBOOT" -> 3

\* OutletCommand.value
CommandValue(command) ==
    CASE command = "IMMEDIATE_ON" -> 1
      [] command = "IMMEDIATE_OFF" -> 2
      [] command = "IMMEDIATE_REBOOT" -> 3

\* OutletCommand.to_telnet_action
to_telnet_action(command) ==
    CASE command = "IMMEDIATE_ON" -> "on"
      [] command = "IMMEDIATE_OFF" -> "off"
      [] command = "IMMEDIATE_REBOOT" -> "reboot"

Clients == {"AsyncCyberPowerPDUHardware", "AsyncTelnetCyberPowerPDUHardware",
            "CyberPowerPDU"}

\* CyberPowerPDU.__init__: the session is chosen from the simulate argument
SelectSession(simulate) ==
    IF simulate THEN "CyberPowerPDUSimulation" ELSE "CyberPowerPDUHardware"

\* The class whose methods run: the facade forwards every call to its session
Active == IF client = "CyberPowerPDU" THEN session ELSE client

----------------------------------------------------------------------------
(* Outcomes of a call: a returned value or a raised exception *)

Return(v) == [status |-> "returned", value |-> v]
Raise(kind, message) == [status |-> kind, value |-> message]
None == <<>>

\* The message of the RuntimeError (the source quotes both names in backticks)
NotInitializedMessage ==
    "The initialize must be called to populate the number_of_outlets property"

\* The number_of_outlets property of the three hardware/simulation classes
number_of_outlets_property ==
    IF number_of_outlets = 0
    THEN Raise("RuntimeError", NotInitializedMessage)
    ELSE Return(number_of_outlets)

\* __get_outlet_value_error: reads the property, which may itself raise
get_outlet_value_error(outlet) ==
    IF number_of_outlets_property.status # "returned"
    THEN number_of_outlets_property
    ELSE Raise("ValueError",
               "Invalid outlet value of: " \o ToString(outlet)
               \o ". Valid outlet values are 1 to "
               \o ToString(number_of_outlets_property.value))

\* __valid_outlet_index: 0 < outlet <= self.number_of_outlets, the right
\* comparison (and with it the property) evaluated only when 0 < outlet
valid_outlet_index(outlet) ==
    IF ~(0 < outlet) THEN Return(FALSE)
    ELSE IF number_of_outlets_property.status # "returned"
         THEN number_of_outlets_property
         ELSE Return(outlet <= number_of_outlets_property.value)

----------------------------------------------------------------------------
(* The PDU (environment).  It holds the outlets' states, applies an        *)
(* accepted command some time after accepting it, and answers SNMP         *)
(* requests from its MIB; any request may also time out or be refused.     *)

Outlets == 1 .. dev_n

\* The effect of the head of dev_pending; a reboot turns the outlet off and
\* leaves "turn on again" pending (docstring of IMMEDIATE_REBOOT)
DeviceApplied(on, pending) ==
    LET head == pending[1] IN
    CASE head.command = "IMMEDIATE_ON" ->
            [on |-> [on EXCEPT ![head.outlet] = TRUE], pending |-> Tail(pending)]
      [] head.command = "IMMEDIATE_OFF" ->
            [on |-> [on EXCEPT ![head.outlet] = FALSE], pending |-> Tail(pending)]
      [] head.command = "IMMEDIATE_REBOOT" ->
            [on |-> [on EXCEPT ![head.outlet] = FALSE],
             pending |-> <<[outlet |-> head.outlet, command |-> "IMMEDIATE_ON"]>>
                         \o Tail(pending)]

RECURSIVE DeviceSettled(_, _)
\* The outlets' states once every pending command has been applied
DeviceSettled(on, pending) ==
    IF pending = <<>> THEN on
    ELSE DeviceSettled(DeviceApplied(on, pending).on,
                       DeviceApplied(on, pending).pending)

\* The device accepts a command: it first finishes the one it is carrying
\* out
DeviceAccepted(on, pending, outlet, command) ==
    [on |-> DeviceSettled(on, pending),
     pending |-> <<[outlet |-> outlet, command |-> command]>>]

DeviceApply ==
    /\ dev_pending # <<>>
    /\ dev_on' = DeviceApplied(dev_on, dev_pending).on
    /\ dev_pending' = DeviceApplied(dev_on, dev_pending).pending
    /\ UNCHANGED <<clientVars, number_of_outlets, number_of_banks, outlet_states,
                   telnetVars, pc, call, initialized, closed, dev_n, dev_login, dev_case, dev_named>>

\* The outlet counts of the devices that are seen to change
ReconfiguredCounts == {0, 1}

\* The device behind the address comes to report one outlet more than the
\* count an initialize has read (a unit is added, the address is given to a
\* larger model)
DeviceReconfigure ==
    /\ initialized
    /\ dev_n = number_of_outlets
    /\ dev_n \in ReconfiguredCounts
    /\ pc = "idle"
    /\ dev_pending = <<>>
    /\ Active # "CyberPowerPDUSimulation"
    /\ dev_n < MaxOutlets
    /\ dev_n' = dev_n + 1
    /\ \E on \in BOOLEAN :
         dev_on' = [o \in 1 .. dev_n + 1 |-> IF o <= dev_n THEN dev_on[o] ELSE on]
    /\ UNCHANGED <<clientVars, number_of_outlets, number_of_banks, outlet_states,
                   telnetVars, pc, call, initialized, closed, dev_pending, dev_login,
                   dev_case, dev_named>>

(* SNMP object identifiers (async_api.py and __init__.py use the same) *)

OidNumberOfOutlets == ".1.3.6.1.4.1.3808.1.1.3.3.1.3.0"
OidNumberOfBanks == ".1.3.6.1.4.1.3808.1.1.3.2.1.4.0"
OidOutletState(outlet) == ".1.3.6.1.4.1.3808.1.1.3.3.5.1.1.4." \o ToString(outlet)
\* Mutant: the command is written to the status address
OidOutletCommandStatus(outlet) == ".1.3.6.1.4.1.3808.1.1.3.3.5.1.1.4." \o ToString(outlet)
OidOutletCommand(outlet) == ".1.3.6.1.4.1.3808.1.1.3.3.3.1.1.4." \o ToString(outlet)
OidBankLoad(bank) == ".1.3.6.1.4.1.3808.1.1.6.5.4.1.5." \o ToString(bank)

\* A typed SNMP value: an integer v, or for an octet string its text s
Snmp(type, v) == [type |-> type, v |-> v, s |-> ""]
SnmpText(s) == [type |-> "OctetString", v |-> 0, s |-> s]
SnmpNull == [type |-> "Null", v |-> 0, s |-> ""]

\* An SNMP response: (errorIndication, errorStatus, value)
Reply(indication, status, value) ==
    [error_indication |-> indication, error_status |-> status, value |-> value]

\* Bank loads the device may report, in tenths of an amp
BankLoads == {0, 37}

\* The values the device's MIB holds at an address (none: no such object)
DeviceMib(oid) ==
    IF oid = OidNumberOfOutlets THEN {Snmp("Integer32", dev_n)}
    ELSE IF oid = OidNumberOfBanks THEN {Snmp("Integer32", b) : b \in {DeviceBanks}}
    ELSE IF \E o \in Outlets : oid = OidOutletState(o)
    THEN {Snmp("Integer32", IF dev_on[o] THEN 1 ELSE 2) :
            o \in {x \in Outlets : oid = OidOutletState(x)}}
    ELSE IF \E b \in 1 .. DeviceBanks : oid = OidBankLoad(b)
    THEN {Snmp("Gauge32", l) : l \in BankLoads}
    ELSE {}

\* Values outside on(1) and off(2) that an outlet's status address may hold
DeviceOddStatus(oid) ==
    IF oid \in {OidOutletState(o) : o \in 1 .. MaxOutlets + 1}
    THEN {Snmp("Integer32", 0), Snmp("Integer32", -1), Snmp("Unsigned32", 0)}
    ELSE {}

\* What may come back for a get: the value, a value of an unexpected type or
\* range, a protocol error status, or a transport error indication
DeviceGetReplies(oid) ==
    {Reply("", "", v) : v \in DeviceMib(oid) \cup DeviceOddStatus(oid)}
    \cup {Reply("", "", Snmp("Integer", 3)), Reply("", "", SnmpText("text")),
          Reply("", "", Snmp("Bits", 0))}
    \cup {Reply("", "noSuchName", SnmpNull)}
    \cup {Reply("No SNMP response received before timeout", "", SnmpNull),
          Reply("No SNMP response received before timeout", "genErr", SnmpNull)}

\* The answers to a call: those of the device when the call sends its
\* request, none when it raises before sending
NoReply == Reply("", "", SnmpNull)
Answers(sends, replies) == IF sends THEN replies ELSE {NoReply}

\* What may come back for a set: accepted, refused, or no answer
DeviceSetReplies(oid) ==
    {Reply("", "", SnmpNull) : o \in {x \in Outlets : oid = OidOutletCommand(x)}}
    \cup {Reply("", "noSuchName", SnmpNull),
          Reply("No SNMP response received before timeout", "", SnmpNull),
          Reply("No SNMP response received before timeout", "genErr", SnmpNull)}

\* The outlet a control address names on the device (0: none)
DeviceControlOutlet(oid) ==
    IF \E o \in Outlets : oid = OidOutletCommand(o)
    THEN CHOOSE o \in Outlets : oid = OidOutletCommand(o)
    ELSE 0

\* The command a written control value means to the device
DeviceCommandOf(value) ==
    CASE value = 1 -> "IMMEDIATE_ON"
      [] value = 2 -> "IMMEDIATE_OFF"
      [] value = 3 -> "IMMEDIATE_REBOOT"
      [] OTHER -> "none"

----------------------------------------------------------------------------
(* async_api.py: the low-level SNMP helper functions *)

\* A Python value with its type
Py(pytype, v) == [pytype |-> pytype, v |-> v]

IntegerTypes == {"Integer32", "Integer", "Unsigned32", "Gauge32"}

\* Mutant: an integer is decoded without its sign
convert_snmp_type_to_python_type_unsigned(snmp_value) ==
    IF snmp_value.type \in IntegerTypes
    THEN Return(Py("int", IF snmp_value.v < 0 THEN -snmp_value.v ELSE snmp_value.v))
    ELSE IF snmp_value.type = "OctetString" THEN Return(Py("str", snmp_value.s))
    ELSE Raise("TypeError",
               "Only SNMP types of type integer and string are supported. "
               \o "Received type of " \o snmp_value.type)

convert_snmp_type_to_python_type(snmp_value) ==
    IF snmp_value.type \in IntegerTypes THEN Return(Py("int", snmp_value.v))
    ELSE IF snmp_value.type = "OctetString" THEN Return(Py("str", snmp_value.s))
    ELSE Raise("TypeError",
               "Only SNMP types of type integer and string are supported. "
               \o "Received type of " \o snmp_value.type)

\* The requests getCmd and setCmd send
GetRequest(oid) == [kind |-> "get", community |-> "public", oid |-> oid, value |-> 0]
SetRequest(oid, value) ==
    [kind |-> "set", community |-> "private", oid |-> oid, value |-> value]

\* Mutant: the error status is looked at before the error indication
get_data_status_first(reply) ==
    IF reply.error_status # "" THEN Raise("RuntimeError", reply.error_status)
    ELSE IF reply.error_indication # "" THEN Raise("RuntimeError", reply.error_indication)
    ELSE convert_snmp_type_to_python_type(reply.value)

\* get_data, given the response to its request
get_data(reply) ==
    IF reply.error_indication # "" THEN Raise("RuntimeError", reply.error_indication)
    ELSE IF reply.error_status # "" THEN Raise("RuntimeError", reply.error_status)
    ELSE convert_snmp_type_to_python_type(reply.value)

get_integer_data(reply) ==
    LET response == get_data(reply) IN
    IF response.status # "returned" THEN response
    ELSE IF response.value.pytype = "int" THEN Return(response.value.v)
    ELSE Raise("ValueError", "Expected an integer response and received "
                             \o response.value.v \o " instead")

\* set_data, given the response to its request
set_data(reply) ==
    IF reply.error_indication # "" THEN Raise("RuntimeError", reply.error_indication)
    ELSE IF reply.error_status # "" THEN Raise("RuntimeError", reply.error_status)
    ELSE Return(None)

\* Mutant: every value but 1 is taken as off
get_outlet_state_lenient(reply) ==
    LET response == get_integer_data(reply) IN
    IF response.status # "returned" THEN response
    ELSE Return(response.value = 1)

\* The module-level get_outlet_state: 1 is on, 2 is off
get_outlet_state(reply) ==
    LET response == get_integer_data(reply) IN
    IF response.status # "returned" THEN response
    ELSE IF response.value = 1 THEN Return(TRUE)
    ELSE IF response.value = 2 THEN Return(FALSE)
    ELSE Raise("ValueError", "Received unexpected value for outlet state: "
                             \o ToString(response.value))

\* The value the module-level send_outlet_command writes: Integer(command.value)
send_outlet_command_value(command) == CommandValue(command)

\* Mutant: the wire integer is returned as amps, without the division
AmpsUndivided(tenths_of_amps) == [whole |-> tenths_of_amps, tenths |-> 0]

\* Amps as a decimal with one fractional digit: float(tenths_of_amps) / 10.0
Amps(tenths_of_amps) ==
    [whole |-> tenths_of_amps \div 10, tenths |-> tenths_of_amps % 10]

\* The module-level get_bank_load
get_bank_load(reply) ==
    LET tenths_of_amps == get_integer_data(reply) IN
    IF tenths_of_amps.status # "returned" THEN tenths_of_amps
    ELSE Return(Amps(tenths_of_amps.value))

----------------------------------------------------------------------------
(* Calls.  A call is recorded with its outcome and with everything it put  *)
(* on or took off the wire, in order.                                      *)

\* What a call gave its caller, each kind of value in a field of its own:
\* the message of an exception, a count, a state, a list of states, a dict
\* (as its items) or a load
NoValue == [text |-> "", number |-> 0, on |-> FALSE, list |-> <<>>, dict |-> {},
            amps |-> [whole |-> 0, tenths |-> 0]]

DictItems(states) == {[outlet |-> k, on |-> states[k]] : k \in DOMAIN states}

CallValue(op, outcome) ==
    IF outcome.status # "returned" THEN [NoValue EXCEPT !.text = outcome.value]
    ELSE CASE op = "number_of_outlets" -> [NoValue EXCEPT !.number = outcome.value]
           [] op = "get_outlet_state" -> [NoValue EXCEPT !.on = outcome.value]
           [] op = "get_all_outlet_states" -> [NoValue EXCEPT !.list = outcome.value]
           [] op = "get_outlet_states" ->
                [NoValue EXCEPT !.dict = DictItems(outcome.value)]
           [] op = "get_bank_load" -> [NoValue EXCEPT !.amps = outcome.value]
           [] OTHER -> NoValue

NoCall == [op |-> "none", arg |-> 0, cmd |-> "none",
           status |-> "returned", value |-> NoValue, io |-> <<>>]

Finished(op, arg, cmd, outcome, io) ==
    [op |-> op, arg |-> arg, cmd |-> cmd,
     status |-> outcome.status, value |-> CallValue(op, outcome), io |-> io]

\* The indices the caller passes
OutletArgs == -1 .. MaxOutlets + 2
BankArgs == -1 .. DeviceBanks + 1

----------------------------------------------------------------------------
(* async_api.py: class AsyncCyberPowerPDUHardware *)

IsSnmp == client = "AsyncCyberPowerPDUHardware" /\ pc = "idle"

\* initialize: the bank count is read and stored, then the outlet count
SnmpInitialize ==
    /\ IsSnmp
    /\ ~initialized
    /\ \E banks_reply \in DeviceGetReplies(OidNumberOfBanks),
          outlets_reply \in DeviceGetReplies(OidNumberOfOutlets) :
         LET banks == get_integer_data(banks_reply)
             outlets == get_integer_data(outlets_reply) IN
         IF banks.status # "returned"
         THEN /\ call' = Finished("initialize", 0, "none", banks,
                                  <<GetRequest(OidNumberOfBanks)>>)
              /\ UNCHANGED <<number_of_banks, number_of_outlets, initialized>>
         ELSE /\ number_of_banks' = banks.value
              /\ IF outlets.status # "returned"
                 THEN /\ call' = Finished("initialize", 0, "none", outlets,
                                          <<GetRequest(OidNumberOfBanks),
                                            GetRequest(OidNumberOfOutlets)>>)
                      /\ UNCHANGED <<number_of_outlets, initialized>>
                 ELSE /\ number_of_outlets' = outlets.value
                      /\ initialized' = TRUE
                      /\ call' = Finished("initialize", 0, "none", Return(None),
                                          <<GetRequest(OidNumberOfBanks),
                                            GetRequest(OidNumberOfOutlets)>>)
    /\ UNCHANGED <<clientVars, outlet_states, telnetVars, pc, closed, devVars>>

\* The number_of_outlets property
SnmpNumberOfOutlets ==
    /\ IsSnmp
    /\ call' = Finished("number_of_outlets", 0, "none", number_of_outlets_property, <<>>)
    /\ UNCHANGED <<clientVars, number_of_outlets, number_of_banks, outlet_states,
                   telnetVars, pc, initialized, closed, devVars>>

\* AsyncCyberPowerPDUHardware.get_bank_load: outcome and requests
SnmpBankLoad(bank, reply) ==
    IF 0 < bank /\ bank <= number_of_banks
    THEN [outcome |-> get_bank_load(reply), io |-> <<GetRequest(OidBankLoad(bank))>>]
    ELSE [outcome |-> Raise("ValueError",
                            "Invalid bank value of: " \o ToString(bank) \o ". "
                            \o "Valid bank values are 1 to {self.__number_of_banks}"),
          io |-> <<>>]

SnmpGetBankLoad ==
    /\ IsSnmp
    /\ \E bank \in BankArgs :
       \E reply \in Answers(0 < bank /\ bank <= number_of_banks,
                            DeviceGetReplies(OidBankLoad(bank))) :
         call' = Finished("get_bank_load", bank, "none",
                          SnmpBankLoad(bank, reply).outcome, SnmpBankLoad(bank, reply).io)
    /\ UNCHANGED <<clientVars, number_of_outlets, number_of_banks, outlet_states,
                   telnetVars, pc, initialized, closed, devVars>>

\* AsyncCyberPowerPDUHardware.get_outlet_state: outcome and requests
SnmpOutletState(outlet, reply) ==
    LET valid == valid_outlet_index(outlet) IN
    IF valid.status # "returned" THEN [outcome |-> valid, io |-> <<>>]
    ELSE IF valid.value
    THEN [outcome |-> get_outlet_state(reply),
          io |-> <<GetRequest(OidOutletState(outlet))>>]
    ELSE [outcome |-> get_outlet_value_error(outlet), io |-> <<>>]

\* Mutant: a get that fails makes the client forget its outlet count
SnmpGetOutletStateForgets ==
    /\ IsSnmp
    /\ \E outlet \in OutletArgs :
       \E reply \in Answers(valid_outlet_index(outlet) = Return(TRUE),
                            DeviceGetReplies(OidOutletState(outlet))) :
         /\ call' = Finished("get_outlet_state", outlet, "none",
                             SnmpOutletState(outlet, reply).outcome,
                             SnmpOutletState(outlet, reply).io)
         /\ number_of_outlets' =
              IF SnmpOutletState(outlet, reply).outcome.status = "RuntimeError"
              THEN 0 ELSE number_of_outlets
    /\ UNCHANGED <<clientVars, number_of_banks, outlet_states,
                   telnetVars, pc, initialized, closed, devVars>>

SnmpGetOutletState ==
    /\ IsSnmp
    /\ \E outlet \in OutletArgs :
       \E reply \in Answers(valid_outlet_index(outlet) = Return(TRUE),
                            DeviceGetReplies(OidOutletState(outlet))) :
         call' = Finished("get_outlet_state", outlet, "none",
                          SnmpOutletState(outlet, reply).outcome,
                          SnmpOutletState(outlet, reply).io)
    /\ UNCHANGED <<clientVars, number_of_outlets, number_of_banks, outlet_states,
                   telnetVars, pc, initialized, closed, devVars>>

\* AsyncCyberPowerPDUHardware.send_outlet_command: outcome and requests
SnmpOutletCommand(outlet, command, reply) ==
    LET valid == valid_outlet_index(outlet) IN
    IF valid.status # "returned" THEN [outcome |-> valid, io |-> <<>>]
    ELSE IF valid.value
    THEN [outcome |-> set_data(reply),
          io |-> <<SetRequest(OidOutletCommand(outlet),
                              send_outlet_command_value(command))>>]
    ELSE [outcome |-> get_outlet_value_error(outlet), io |-> <<>>]

\* The device's side of a call's set requests: an accepted one is queued
DeviceAfterSet(io, reply) ==
    IF io # <<>> /\ io[1].kind = "set" /\ reply = Reply("", "", SnmpNull)
       /\ DeviceControlOutlet(io[1].oid) # 0 /\ DeviceCommandOf(io[1].value) # "none"
    THEN DeviceAccepted(dev_on, dev_pending, DeviceControlOutlet(io[1].oid),
                        DeviceCommandOf(io[1].value))
    ELSE [on |-> dev_on, pending |-> dev_pending]

SnmpSendOutletCommand ==
    /\ IsSnmp
    /\ \E outlet \in OutletArgs, command \in OutletCommand :
       \E reply \in Answers(valid_outlet_index(outlet) = Return(TRUE),
                            DeviceSetReplies(OidOutletCommand(outlet))) :
         LET does == SnmpOutletCommand(outlet, command, reply) IN
         /\ call' = Finished("send_outlet_command", outlet, command,
                             does.outcome, does.io)
         /\ dev_on' = DeviceAfterSet(does.io, reply).on
         /\ dev_pending' = DeviceAfterSet(does.io, reply).pending
    /\ UNCHANGED <<clientVars, number_of_outlets, number_of_banks, outlet_states,
                   telnetVars, pc, initialized, closed, dev_n, dev_login, dev_case, dev_named>>

SnmpNext ==
    \/ SnmpInitialize
    \/ SnmpNumberOfOutlets
    \/ SnmpGetBankLoad
    \/ SnmpGetOutletState
    \/ SnmpSendOutletCommand

----------------------------------------------------------------------------
(* __init__.py: class CyberPowerPDUHardware (a puresnmp client created     *)
(* with the credentials V2C("private"))                                    *)

HwGetRequest(oid) == [kind |-> "get", community |-> "private", oid |-> oid, value |-> 0]
HwSetRequest(oid, value) ==
    [kind |-> "set", community |-> "private", oid |-> oid, value |-> value]

\* self.__client.get / set, given the response: puresnmp raises on a missing
\* or refused response
client_get(reply) ==
    IF reply.error_indication # "" THEN Raise("Timeout", reply.error_indication)
    ELSE IF reply.error_status # "" THEN Raise("ErrorResponse", reply.error_status)
    ELSE Return(reply.value)

client_set(reply) ==
    IF reply.error_indication # "" THEN Raise("Timeout", reply.error_indication)
    ELSE IF reply.error_status # "" THEN Raise("ErrorResponse", reply.error_status)
    ELSE Return(None)

\* int(response) on what client.get returned
int_of(response) ==
    IF response.status # "returned" THEN response
    ELSE IF response.value.type \in IntegerTypes THEN Return(response.value.v)
    ELSE IF response.value.type = "OctetString"
    THEN Raise("ValueError", "invalid literal for int() with base 10")
    ELSE Raise("TypeError", "int() argument must be a string or a number")

\* CyberPowerPDUHardware.get_outlet_state, from the response on:
\* match int(response)
HwDecodedState(reply) ==
    LET response == int_of(client_get(reply)) IN
    IF response.status # "returned" THEN response
    ELSE IF response.value = 1 THEN Return(TRUE)
    ELSE IF response.value = 2 THEN Return(FALSE)
    ELSE Raise("ValueError", "Received unexpected value for outlet state: "
                             \o ToString(response.value))

\* CyberPowerPDUHardware.get_outlet_state: outcome and requests
HwOutletState(outlet, reply) ==
    LET valid == valid_outlet_index(outlet) IN
    IF valid.status # "returned" THEN [outcome |-> valid, io |-> <<>>]
    ELSE IF ~valid.value THEN [outcome |-> get_outlet_value_error(outlet), io |-> <<>>]
    ELSE [outcome |-> HwDecodedState(reply),
          io |-> <<HwGetRequest(OidOutletState(outlet))>>]

\* Mutant: the range stops one outlet short
HwAllOutletsRangeShort == 1 .. number_of_outlets - 1

\* The outlets get_all_outlet_states asks for, in order:
\* range(1, self.number_of_outlets + 1)
HwAllOutletsRange == 1 .. number_of_outlets

\* Mutant: a get_outlet_state that raises ends the list where it stands
HwAllOutletStatesRaisedPartial(one, list, io) ==
    {[outcome |-> Return(list), io |-> io \o one.io]}

\* An exception of get_outlet_state leaves the list comprehension: the call
\* raises it and the list built so far is dropped
HwAllOutletStatesRaised(one, list, io) ==
    {[outcome |-> one.outcome, io |-> io \o one.io]}

RECURSIVE HwAllOutletStatesFrom(_, _, _)
\* The list comprehension of get_all_outlet_states from outlet onwards: the
\* first get_outlet_state that raises ends the call
HwAllOutletStatesFrom(outlet, list, io) ==
    IF outlet \notin HwAllOutletsRange \/ outlet < 1
    THEN {[outcome |-> Return(list), io |-> io]}
    ELSE UNION {
        LET one == HwOutletState(outlet, reply) IN
        IF one.outcome.status = "returned"
        THEN HwAllOutletStatesFrom(outlet + 1, Append(list, one.outcome.value),
                                   io \o one.io)
        ELSE HwAllOutletStatesRaised(one, list, io)
        : reply \in DeviceGetReplies(OidOutletState(outlet)) }

\* CyberPowerPDUHardware.get_all_outlet_states: the possible outcomes
HwAllOutletStates ==
    IF number_of_outlets_property.status # "returned"
    THEN {[outcome |-> number_of_outlets_property, io |-> <<>>]}
    ELSE HwAllOutletStatesFrom(1, <<>>, <<>>)

\* CyberPowerPDUHardware.send_outlet_command: outcome and requests
HwOutletCommand(outlet, command, reply) ==
    LET valid == valid_outlet_index(outlet) IN
    IF valid.status # "returned" THEN [outcome |-> valid, io |-> <<>>]
    ELSE IF valid.value
    THEN [outcome |-> client_set(reply),
          io |-> <<HwSetRequest(OidOutletCommand(outlet), CommandValue(command))>>]
    ELSE [outcome |-> get_outlet_value_error(outlet), io |-> <<>>]

----------------------------------------------------------------------------
(* __init__.py: class CyberPowerPDUSimulation *)

\* Python list indexing: the position (from 1) that index selects in a list
\* of the given length, 0 when it raises IndexError
PyIndex(length, index) ==
    IF 0 <= index /\ index < length THEN index + 1
    ELSE IF -length <= index /\ index < 0 THEN length + index + 1
    ELSE 0

\* CyberPowerPDUSimulation.get_outlet_state: self.__outlet_states[outlet - 1]
SimOutletState(outlet) ==
    IF PyIndex(Len(outlet_states), outlet - 1) = 0
    THEN Raise("IndexError", "list index out of range")
    ELSE Return(outlet_states[PyIndex(Len(outlet_states), outlet - 1)])

\* The state each command stores
SimCommandState(command) ==
    CASE command = "IMMEDIATE_ON" -> TRUE
      [] command = "IMMEDIATE_OFF" -> FALSE
      [] command = "IMMEDIATE_REBOOT" -> TRUE

\* CyberPowerPDUSimulation.send_outlet_command on the list states: outcome
\* and the new list
SimOutletCommand(states, outlet, command) ==
    IF PyIndex(Len(states), outlet - 1) = 0
    THEN [outcome |-> Raise("IndexError", "list assignment index out of range"),
          states |-> states]
    ELSE [outcome |-> Return(None),
          states |-> [states EXCEPT ![PyIndex(Len(states), outlet - 1)] =
                                       SimCommandState(command)]]

\* CyberPowerPDUSimulation.get_all_outlet_states
SimAllOutletStates == Return(outlet_states)

----------------------------------------------------------------------------
(* __init__.py: class CyberPowerPDU, which forwards every call to the      *)
(* session chosen in its constructor                                       *)

IsFacade == client = "CyberPowerPDU" /\ pc = "idle"
\* Mutant: the facade forwards to the session it did not choose
IsSimSwapped == session = "CyberPowerPDUHardware"
IsSim == session = "CyberPowerPDUSimulation"

\* The indices the caller passes to a simulated session: both ends of the
\* list, from the front and from the back
SimOutletArgs == {-SimulatedOutlets, 1 - SimulatedOutlets, -1, 0, 1, 2,
                  SimulatedOutlets, SimulatedOutlets + 1}
FacadeOutletArgs == IF IsSim THEN SimOutletArgs ELSE OutletArgs

FacadeInitialize ==
    /\ IsFacade
    /\ ~initialized
    /\ IF IsSim
       THEN /\ number_of_outlets' = SimulatedOutlets
            /\ outlet_states' = [i \in 1 .. SimulatedOutlets |-> FALSE]
            /\ initialized' = TRUE
            /\ call' = Finished("initialize", 0, "none", Return(None), <<>>)
       ELSE \E reply \in DeviceGetReplies(OidNumberOfOutlets) :
              LET outlets == int_of(client_get(reply)) IN
              /\ call' = Finished("initialize", 0, "none",
                                  IF outlets.status = "returned" THEN Return(None)
                                  ELSE outlets,
                                  <<HwGetRequest(OidNumberOfOutlets)>>)
              /\ number_of_outlets' = IF outlets.status = "returned" THEN outlets.value
                                      ELSE number_of_outlets
              /\ initialized' = (outlets.status = "returned")
              /\ UNCHANGED outlet_states
    /\ closed' = FALSE
    /\ UNCHANGED <<clientVars, number_of_banks, telnetVars, pc, devVars>>

\* Mutant: close forgets the cached count
FacadeCloseResets ==
    /\ IsFacade
    /\ closed' = TRUE
    /\ number_of_outlets' = 0
    /\ call' = Finished("close", 0, "none", Return(None), <<>>)
    /\ UNCHANGED <<clientVars, number_of_banks, outlet_states,
                   telnetVars, pc, initialized, devVars>>

\* close: the simulation and the hardware session both only log
FacadeClose ==
    /\ IsFacade
    /\ closed' = TRUE
    /\ call' = Finished("close", 0, "none", Return(None), <<>>)
    /\ UNCHANGED <<clientVars, number_of_outlets, number_of_banks, outlet_states,
                   telnetVars, pc, initialized, devVars>>

FacadeNumberOfOutlets ==
    /\ IsFacade
    /\ call' = Finished("number_of_outlets", 0, "none", number_of_outlets_property, <<>>)
    /\ UNCHANGED <<clientVars, number_of_outlets, number_of_banks, outlet_states,
                   telnetVars, pc, initialized, closed, devVars>>

FacadeGetAllOutletStates ==
    /\ IsFacade
    /\ IF IsSim
       THEN call' = Finished("get_all_outlet_states", 0, "none", SimAllOutletStates, <<>>)
       ELSE \E all \in HwAllOutletStates :
              call' = Finished("get_all_outlet_states", 0, "none", all.outcome, all.io)
    /\ UNCHANGED <<clientVars, number_of_outlets, number_of_banks, outlet_states,
                   telnetVars, pc, initialized, closed, devVars>>

FacadeGetOutletState ==
    /\ IsFacade
    /\ \E outlet \in FacadeOutletArgs :
         IF IsSim
         THEN call' = Finished("get_outlet_state", outlet, "none",
                               SimOutletState(outlet), <<>>)
         ELSE \E reply \in Answers(valid_outlet_index(outlet) = Return(TRUE),
                                     DeviceGetReplies(OidOutletState(outlet))) :
                call' = Finished("get_outlet_state", outlet, "none",
                                 HwOutletState(outlet, reply).outcome,
                                 HwOutletState(outlet, reply).io)
    /\ UNCHANGED <<clientVars, number_of_outlets, number_of_banks, outlet_states,
                   telnetVars, pc, initialized, closed, devVars>>

FacadeSendOutletCommand ==
    /\ IsFacade
    /\ \E outlet \in FacadeOutletArgs, command \in OutletCommand :
         IF IsSim
         THEN /\ call' = Finished("send_outlet_command", outlet, command,
                                  SimOutletCommand(outlet_states, outlet,
                                                   command).outcome, <<>>)
              /\ outlet_states' = SimOutletCommand(outlet_states, outlet,
                                                   command).states
              /\ UNCHANGED <<dev_on, dev_pending>>
         ELSE \E reply \in Answers(valid_outlet_index(outlet) = Return(TRUE),
                                     DeviceSetReplies(OidOutletCommand(outlet))) :
                LET does == HwOutletCommand(outlet, command, reply) IN
                /\ call' = Finished("send_outlet_command", outlet, command,
                                    does.outcome, does.io)
                /\ dev_on' = DeviceAfterSet(does.io, reply).on
                /\ dev_pending' = DeviceAfterSet(does.io, reply).pending
                /\ UNCHANGED outlet_states
    /\ UNCHANGED <<clientVars, number_of_outlets, number_of_banks,
                   telnetVars, pc, initialized, closed, dev_n, dev_login, dev_case, dev_named>>

FacadeNext ==
    \/ FacadeInitialize
    \/ FacadeClose
    \/ FacadeNumberOfOutlets
    \/ FacadeGetAllOutletStates
    \/ FacadeGetOutletState
    \/ FacadeSendOutletCommand

----------------------------------------------------------------------------
(* telnet_api.py: text.  A text is a sequence of characters; the pattern   *)
(* of get_outlet_states is matched against it as re.findall does.          *)

DigitChars == <<"0", "1", "2", "3", "4", "5", "6", "7", "8", "9">>
Digits == {"0", "1", "2", "3", "4", "5", "6", "7", "8", "9"}
Letters ==
    {"A", "B", "C", "D", "E", "F", "G", "H", "I", "J", "K", "L", "M",
     "N", "O", "P", "Q", "R", "S", "T", "U", "V", "W", "X", "Y", "Z",
     "a", "b", "c", "d", "e", "f", "g", "h", "i", "j", "k", "l", "m",
     "n", "o", "p", "q", "r", "s", "t", "u", "v", "w", "x", "y", "z"}
SpaceChars == {" ", "\t", "\n", "\r", "\f"}
WordChars == Digits \cup Letters \cup {"_"}
\* The classes \d, \s and \w of the pattern
IsDigit(c) == c \in Digits
IsSpace(c) == c \in SpaceChars
IsWord(c) == c \in WordChars

RECURSIVE DecimalChars(_)
\* str(n) for n >= 0
DecimalChars(n) ==
    IF n < 10 THEN <<DigitChars[n + 1]>>
    ELSE DecimalChars(n \div 10) \o <<DigitChars[(n % 10) + 1]>>

DigitValue(c) == (CHOOSE i \in 1 .. 10 : DigitChars[i] = c) - 1

RECURSIVE DecimalValue(_)
\* int(digits) for a non-empty run of digits
DecimalValue(digits) ==
    IF Len(digits) = 1 THEN DigitValue(digits[1])
    ELSE 10 * DecimalValue(SubSeq(digits, 1, Len(digits) - 1))
         + DigitValue(digits[Len(digits)])

\* The position after the run of \d characters that starts at i.  The runs
\* and the scan of FindAll are recursive functions of the position, so that
\* each position is a value when the next one is computed from it.
DigitRunEnd(text, i) ==
    LET end[k \in i .. Len(text) + 1] ==
            IF k <= Len(text) /\ IsDigit(text[k]) THEN end[k + 1] ELSE k IN
    end[i]

SpaceRunEnd(text, i) ==
    LET end[k \in i .. Len(text) + 1] ==
            IF k <= Len(text) /\ IsSpace(text[k]) THEN end[k + 1] ELSE k IN
    end[i]

WordRunEnd(text, i) ==
    LET end[k \in i .. Len(text) + 1] ==
            IF k <= Len(text) /\ IsWord(text[k]) THEN end[k + 1] ELSE k IN
    end[i]

\* Whether text holds the characters of word from position i on
StartsWith(text, i, word) ==
    /\ i + Len(word) - 1 <= Len(text)
    /\ \A k \in 1 .. Len(word) : text[i + k - 1] = word[k]

\* The pattern (\d+)\s+\w+\d+\s+(On|Off) tried at position i.  Each run it
\* matches is followed by a character the run's class excludes, so each run
\* is the whole run; \w+\d+ is a run of at least two word characters that
\* ends in a digit.  ok, the two groups, and the position after the match.
PatternAt(text, i) ==
    LET d == DigitRunEnd(text, i)
        s == SpaceRunEnd(text, d)
        w == WordRunEnd(text, s)
        t == SpaceRunEnd(text, w)
        state == IF StartsWith(text, t, <<"O", "n">>) THEN <<"O", "n">>
                 ELSE IF StartsWith(text, t, <<"O", "f", "f">>) THEN <<"O", "f", "f">>
                 ELSE <<>> IN
    IF /\ d > i
       /\ s > d
       /\ w >= s + 2
       /\ IsDigit(text[w - 1])
       /\ t > w
       /\ state # <<>>
    THEN [ok |-> TRUE, outlet |-> SubSeq(text, i, d - 1), state |-> state,
          end |-> t + Len(state)]
    ELSE [ok |-> FALSE, outlet |-> <<>>, state |-> <<>>, end |-> i + 1]

\* re.findall(pattern, text) from position i on: the group pairs of the
\* non-overlapping matches, left to right
FindAll(text, i) ==
    LET from[k \in 1 .. Len(text) + 1] ==
            IF k > Len(text) THEN <<>>
            ELSE LET match == PatternAt(text, k) IN
                 IF match.ok
                 THEN <<[outlet |-> match.outlet, state |-> match.state]>>
                      \o from[match.end]
                 ELSE from[k + 1] IN
    from[i]

\* str.lower() on the letters the state strings can hold
LowerChar(c) ==
    CASE c = "O" -> "o"
      [] c = "N" -> "n"
      [] c = "F" -> "f"
      [] OTHER -> c

RECURSIVE Strip(_)
\* str.strip()
Strip(text) ==
    IF text # <<>> /\ IsSpace(text[1]) THEN Strip(Tail(text))
    ELSE IF text # <<>> /\ IsSpace(text[Len(text)])
    THEN Strip(SubSeq(text, 1, Len(text) - 1))
    ELSE text

\* convert_telnet_string_to_bool, local to get_outlet_states
convert_telnet_string_to_bool(telnet_string) ==
    LET lowered == [k \in 1 .. Len(Strip(telnet_string)) |->
                        LowerChar(Strip(telnet_string)[k])] IN
    IF lowered = <<"o", "n">> THEN Return(TRUE)
    ELSE IF lowered = <<"o", "f", "f">> THEN Return(FALSE)
    ELSE Raise("ValueError", "Invalid telnet on/off string")

RECURSIVE DictOf(_)
\* The dict comprehension over the matches: a later match replaces an
\* earlier one with the same key
DictOf(matches) ==
    IF matches = <<>> THEN <<>>
    ELSE LET last == matches[Len(matches)]
             rest == DictOf(SubSeq(matches, 1, Len(matches) - 1))
             key == DecimalValue(last.outlet) IN
         [k \in DOMAIN rest \cup {key} |->
            IF k = key THEN convert_telnet_string_to_bool(last.state).value
            ELSE rest[k]]

\* outlet_states as get_outlet_states computes it from one response
ParseOutletStates(response) == DictOf(FindAll(response, 1))

----------------------------------------------------------------------------
(* The PDU's Telnet side (environment).  The stream from the device is a   *)
(* sequence of chunks, each a text followed by a marker.  A chunk is kept  *)
(* as what the device printed (nothing, or its outlet table for the states *)
(* in shows); ChunkText gives its characters.                              *)

LoginNameMarker == "Login Name: "
LoginPasswordMarker == "Login Password: "
Prompt == "CyberPower > "
EndOfStream == "EOF"

MarkerChars(mark) ==
    CASE mark = LoginNameMarker -> <<"L", "o", "g", "i", "n", " ", "N", "a", "m", "e", ":", " ">>
      [] mark = LoginPasswordMarker -> <<"L", "o", "g", "i", "n", " ", "P", "a", "s", "s", "w", "o", "r", "d", ":", " ">>
      [] mark = Prompt -> <<"C", "y", "b", "e", "r", "P", "o", "w", "e", "r", " ", ">", " ">>
      [] OTHER -> <<>>

Chunk(prints, mark, shows) == [prints |-> prints, mark |-> mark, shows |-> shows]
NoText(mark) == Chunk("nothing", mark, <<>>)

\* The spellings of the status column: as in the sample of
\* get_outlet_states, or in another case of the letters
DeviceCases == {"On/Off", "on/OFF"}
StatusWord(on) ==
    CASE dev_case = "On/Off" -> IF on THEN <<"O", "n">> ELSE <<"O", "f", "f">>
      [] dev_case = "on/OFF" -> IF on THEN <<"o", "n">> ELSE <<"O", "F", "F">>

\* The names an operator may have given: the device shows a changed name in
\* place of the default OutletN of the sample
DeviceNamings == {{}, {1}}
OutletName(outlet) ==
    IF outlet \in dev_named THEN <<"P", "u", "m", "p">>
    ELSE <<"O", "u", "t", "l", "e", "t">> \o DecimalChars(outlet)

\* One line of the device's outlet table, as in the sample of get_outlet_states
PageLine(outlet, on) ==
    DecimalChars(outlet) \o <<" ", " ">> \o OutletName(outlet)
    \o <<" ", " ", " ">> \o StatusWord(on)
    \o <<"\r", "\n">>

RECURSIVE PageText(_, _)
\* The table of outlets 1 .. n
PageText(on, n) ==
    IF n = 0 THEN <<>> ELSE PageText(on, n - 1) \o PageLine(n, on[n])

\* The characters of a chunk before its marker
ChunkText(chunk) ==
    IF chunk.prints = "table"
    THEN PageText(chunk.shows, Cardinality(DOMAIN chunk.shows))
    ELSE <<>>

\* What the device may answer to "oltsta show": its table, or a page
\* without any table line
DevicePages == {Chunk("table", Prompt, dev_on), NoText(Prompt)}

\* The device's command grammar
DeviceActions == {"on", "off", "reboot"}
DeviceCommandLine(outlet, action) ==
    "oltctrl index " \o ToString(outlet) \o " act " \o action \o "\r\n"
DeviceActionCommand(action) ==
    CASE action = "on" -> "IMMEDIATE_ON"
      [] action = "off" -> "IMMEDIATE_OFF"
      [] action = "reboot" -> "IMMEDIATE_REBOOT"

\* The device greets a new connection with the login name prompt
DeviceGreet ==
    /\ dev_login = "accepted"
    /\ reader' = Append(reader, NoText(LoginNameMarker))
    /\ dev_login' = "name"
    /\ UNCHANGED <<clientVars, number_of_outlets, number_of_banks, outlet_states,
                   conn, writer, pc, call, initialized, closed,
                   dev_n, dev_on, dev_pending, dev_case, dev_named>>

\* The device takes the next line: a login answer, or a shell command
DeviceProcess ==
    /\ writer # <<>>
    /\ dev_login \in {"name", "password", "shell"}
    /\ writer' = Tail(writer)
    /\ LET line == Head(writer) IN
       CASE dev_login = "name" ->
              /\ reader' = Append(reader, NoText(LoginPasswordMarker))
              /\ dev_login' = "password"
              /\ UNCHANGED <<dev_on, dev_pending>>
         [] dev_login = "password" ->
              \* the credentials are accepted, or the login starts again
              /\ \E accept \in BOOLEAN :
                   /\ reader' = Append(reader,
                                       NoText(IF accept THEN Prompt
                                                   ELSE LoginNameMarker))
                   /\ dev_login' = IF accept THEN "shell" ELSE "name"
              /\ UNCHANGED <<dev_on, dev_pending>>
         [] dev_login = "shell" /\ line = "oltsta show\r\n" ->
              /\ \E page \in DevicePages : reader' = Append(reader, page)
              /\ UNCHANGED <<dev_login, dev_on, dev_pending>>
         [] dev_login = "shell" /\ line = "exit\r\n" ->
              /\ reader' = Append(reader, NoText(EndOfStream))
              /\ dev_login' = "closed"
              /\ UNCHANGED <<dev_on, dev_pending>>
         [] OTHER ->
              /\ reader' = Append(reader, NoText(Prompt))
              /\ IF \E o \in Outlets, a \in DeviceActions : line = DeviceCommandLine(o, a)
                 THEN \E o \in Outlets, a \in DeviceActions :
                        /\ line = DeviceCommandLine(o, a)
                        /\ dev_on' = DeviceAccepted(dev_on, dev_pending, o,
                                                    DeviceActionCommand(a)).on
                        /\ dev_pending' = DeviceAccepted(dev_on, dev_pending, o,
                                                         DeviceActionCommand(a)).pending
                 ELSE UNCHANGED <<dev_on, dev_pending>>
              /\ UNCHANGED dev_login
    /\ UNCHANGED <<clientVars, number_of_outlets, number_of_banks, outlet_states,
                   conn, pc, call, initialized, closed, dev_n, dev_case, dev_named>>

----------------------------------------------------------------------------
(* telnet_api.py: the stream operations *)

\* The first chunk that ends an unbroken readuntil(marker): its position,
\* 0 while the marker has not arrived
RECURSIVE MarkerPosition(_, _, _)
MarkerPosition(stream, marker, i) ==
    IF i > Len(stream) THEN 0
    ELSE IF stream[i].mark = marker \/ stream[i].mark = EndOfStream THEN i
    ELSE MarkerPosition(stream, marker, i + 1)

RECURSIVE StreamData(_, _)
\* The characters of the first k chunks
StreamData(stream, k) ==
    IF k = 0 THEN <<>>
    ELSE StreamData(stream, k - 1) \o ChunkText(stream[k]) \o MarkerChars(stream[k].mark)

\* readuntil(marker) on the reader: "wait" while the marker has not arrived;
\* "eof" when the stream ended first; else the chunks read and the rest of
\* the stream
readuntil(stream, marker) ==
    LET k == MarkerPosition(stream, marker, 1) IN
    IF k = 0 THEN [status |-> "wait", chunks |-> <<>>, rest |-> stream]
    ELSE IF stream[k].mark = EndOfStream /\ marker # EndOfStream
    THEN [status |-> "eof", chunks |-> <<>>, rest |-> stream]
    ELSE [status |-> "ok", chunks |-> SubSeq(stream, 1, k),
          rest |-> SubSeq(stream, k + 1, Len(stream))]

\* The characters readuntil returns for the chunks it read
DataOf(chunks) == StreamData(chunks, Len(chunks))

\* The wire log of a call holds its first MaxLog events
Logged(io, event) == IF Len(io) < MaxLog THEN Append(io, event) ELSE io
WriteEvent(line) == [kind |-> "write", line |-> line, until |-> "", chunks |-> <<>>]
ReadEvent(marker, chunks) ==
    [kind |-> "read", line |-> "", until |-> marker, chunks |-> chunks]

Running(op, arg, cmd) ==
    [op |-> op, arg |-> arg, cmd |-> cmd, status |-> "running", value |-> NoValue,
     io |-> <<>>]

\* The running call ends
Ended(outcome) ==
    [call EXCEPT !.status = outcome.status, !.value = CallValue(call.op, outcome)]

----------------------------------------------------------------------------
(* telnet_api.py: class AsyncTelnetCyberPowerPDUHardware *)

IsTelnet == client = "AsyncTelnetCyberPowerPDUHardware"
\* A call starts when no coroutine runs; the device by then has taken the
\* lines of the earlier calls
IsTelnetIdle == IsTelnet /\ pc = "idle" /\ writer = <<>>

\* Mutant: the username is written before the login prompt is awaited
TelnetInitializeProgramEager ==
    << [label |-> "username", do |-> "write", data |-> "test-username\r\n"],
       [label |-> "login_name", do |-> "readuntil", data |-> LoginNameMarker],
       [label |-> "login_password", do |-> "readuntil", data |-> LoginPasswordMarker],
       [label |-> "password", do |-> "write", data |-> "test-password\r\n"],
       [label |-> "prompt", do |-> "readuntil", data |-> Prompt],
       [label |-> "outlets", do |-> "get_outlet_states", data |-> ""] >>

\* The statements of initialize after open_connection, in program order
TelnetInitializeProgram ==
    << [label |-> "login_name", do |-> "readuntil", data |-> LoginNameMarker],
       [label |-> "username", do |-> "write", data |-> "test-username\r\n"],
       [label |-> "login_password", do |-> "readuntil", data |-> LoginPasswordMarker],
       [label |-> "password", do |-> "write", data |-> "test-password\r\n"],
       [label |-> "prompt", do |-> "readuntil", data |-> Prompt],
       [label |-> "outlets", do |-> "get_outlet_states", data |-> ""] >>

InitializeLabels == {TelnetInitializeProgram[i].label : i \in DOMAIN TelnetInitializeProgram}
StatementAt(label) ==
    TelnetInitializeProgram[CHOOSE i \in DOMAIN TelnetInitializeProgram :
                                TelnetInitializeProgram[i].label = label]
LabelAfter(label) ==
    LET i == CHOOSE k \in DOMAIN TelnetInitializeProgram :
                TelnetInitializeProgram[k].label = label IN
    IF i < Len(TelnetInitializeProgram) THEN TelnetInitializeProgram[i + 1].label
    ELSE "done"

\* initialize: open_connection succeeds or raises
TelnetInitialize ==
    /\ IsTelnetIdle
    /\ ~initialized
    /\ conn = "unset"
    /\ \E connected \in BOOLEAN :
         IF connected
         THEN /\ conn' = "open"
              /\ dev_login' = "accepted"
              /\ call' = Running("initialize", 0, "none")
              /\ pc' = TelnetInitializeProgram[1].label
         ELSE /\ call' = Finished("initialize", 0, "none",
                                  Raise("ConnectionRefusedError", "Connect call failed"),
                                  <<>>)
              /\ UNCHANGED <<conn, dev_login, pc>>
    /\ UNCHANGED <<clientVars, number_of_outlets, number_of_banks, outlet_states,
                   reader, writer, initialized, closed, dev_n, dev_on, dev_pending,
                   dev_case, dev_named>>

\* One statement of initialize
TelnetInitializeStep ==
    /\ IsTelnet
    /\ pc \in InitializeLabels
    /\ LET statement == StatementAt(pc)
           read == readuntil(reader, statement.data) IN
       CASE statement.do = "readuntil" ->
              /\ read.status # "wait"
              /\ IF read.status = "ok"
                 THEN /\ reader' = read.rest
                      /\ call' = [call EXCEPT !.io = Logged(@, ReadEvent(statement.data,
                                                                         read.chunks))]
                      /\ pc' = IF LabelAfter(pc) = "done" THEN "idle" ELSE LabelAfter(pc)
                 ELSE /\ call' = Ended(Raise("IncompleteReadError", "EOF"))
                      /\ pc' = "idle"
                      /\ UNCHANGED reader
              /\ UNCHANGED writer
         [] statement.do = "write" ->
              /\ writer' = Append(writer, statement.data)
              /\ call' = [call EXCEPT !.io = Logged(@, WriteEvent(statement.data))]
              /\ pc' = IF LabelAfter(pc) = "done" THEN "idle" ELSE LabelAfter(pc)
              /\ UNCHANGED reader
         [] OTHER ->
              /\ pc' = "query_write"
              /\ UNCHANGED <<reader, writer, call>>
    /\ UNCHANGED <<clientVars, number_of_outlets, number_of_banks, outlet_states,
                   conn, initialized, closed, devVars>>

\* Mutant: the response is taken as it is, without polling again
PollNever(states) == FALSE

\* Mutant: the loop gives up after two empty responses
PollTwice(states) == states = <<>> /\ Len(call.io) < 4

\* The while condition of get_outlet_states
PollAgain(states) == states = <<>>

\* get_outlet_states, loop body: the query is written
TelnetQueryWrite ==
    /\ IsTelnet
    /\ pc = "query_write"
    /\ conn = "open"
    /\ writer' = Append(writer, "oltsta show\r\n")
    /\ call' = [call EXCEPT !.io = Logged(@, WriteEvent("oltsta show\r\n"))]
    /\ pc' = "query_read"
    /\ UNCHANGED <<clientVars, number_of_outlets, number_of_banks, outlet_states,
                   conn, reader, initialized, closed, devVars>>

\* What the caller of get_outlet_states does with the dict it returns
AfterOutletStates(states) ==
    CASE call.op = "initialize" -> Return(None)
      [] call.op = "get_outlet_state" ->
            IF call.arg \in DOMAIN states THEN Return(states[call.arg])
            ELSE Raise("KeyError", ToString(call.arg))
      [] OTHER -> Return(states)

\* Mutant: every caller of get_outlet_states stores the number of its items
StoredOutletCountAlways(states) == Cardinality(DOMAIN states)

\* The count after get_outlet_states returned: initialize stores the number
\* of items, the other callers leave the count as it is
StoredOutletCount(states) ==
    IF call.op = "initialize" THEN Cardinality(DOMAIN states) ELSE number_of_outlets

\* get_outlet_states, loop body: the response is read up to the prompt and
\* parsed; an empty dict repeats the loop
TelnetQueryRead ==
    /\ IsTelnet
    /\ pc = "query_read"
    /\ \E read \in {readuntil(reader, Prompt)} :
       \E response \in {DataOf(read.chunks)} :
       \E matches \in {FindAll(response, 1)} :
       \E states \in {DictOf(matches)} :
       /\ read.status # "wait"
       /\ IF read.status = "eof"
          THEN /\ call' = Ended(Raise("IncompleteReadError", "EOF"))
               /\ pc' = "idle"
               /\ UNCHANGED <<reader, number_of_outlets, initialized>>
          ELSE /\ reader' = read.rest
               /\ IF PollAgain(states)
                  THEN /\ call' = [call EXCEPT !.io = Logged(@, ReadEvent(Prompt,
                                                                          read.chunks))]
                       /\ pc' = "query_write"
                       /\ UNCHANGED <<number_of_outlets, initialized>>
                  ELSE /\ call' = [call EXCEPT
                                     !.io = Logged(@, ReadEvent(Prompt, read.chunks)),
                                     !.status = AfterOutletStates(states).status,
                                     !.value = CallValue(call.op,
                                                         AfterOutletStates(states))]
                       /\ pc' = "idle"
                       /\ number_of_outlets' = StoredOutletCount(states)
                       /\ initialized' = (initialized \/ call.op = "initialize")
    /\ UNCHANGED <<clientVars, number_of_banks, outlet_states, conn, writer,
                   closed, devVars>>

\* A stream operation on a closed connection ends the call: the write is
\* dropped and the read finds the end of the stream
ClosedStreamError == Raise("IncompleteReadError", "EOF")

TelnetNumberOfOutlets ==
    /\ IsTelnetIdle
    /\ call' = Finished("number_of_outlets", 0, "none", number_of_outlets_property, <<>>)
    /\ UNCHANGED <<clientVars, number_of_outlets, number_of_banks, outlet_states,
                   telnetVars, pc, initialized, closed, devVars>>

\* Mutant: a bank below 1 is refused as out of range
TelnetBankLoadRanged(bank) ==
    IF bank < 1 THEN Raise("ValueError", "Invalid bank value of: " \o ToString(bank))
    ELSE Raise("NotImplementedError", "This method is not implemented in the telnet API")

\* get_bank_load raises whatever the bank and the state of the session
TelnetBankLoad(bank) ==
    Raise("NotImplementedError", "This method is not implemented in the telnet API")

TelnetGetBankLoad ==
    /\ IsTelnetIdle
    /\ \E bank \in BankArgs :
         call' = Finished("get_bank_load", bank, "none", TelnetBankLoad(bank), <<>>)
    /\ UNCHANGED <<clientVars, number_of_outlets, number_of_banks, outlet_states,
                   telnetVars, pc, initialized, closed, devVars>>

\* get_outlet_states called by the user: the writer does not exist before
\* initialize has opened the connection
TelnetGetOutletStates ==
    /\ IsTelnetIdle
    /\ IF conn = "unset"
       THEN /\ call' = Finished("get_outlet_states", 0, "none",
                                Raise("AttributeError", "__writer"), <<>>)
            /\ UNCHANGED pc
       ELSE IF conn = "closed"
       THEN /\ call' = Finished("get_outlet_states", 0, "none", ClosedStreamError, <<>>)
            /\ UNCHANGED pc
       ELSE /\ call' = Running("get_outlet_states", 0, "none")
            /\ pc' = "query_write"
    /\ UNCHANGED <<clientVars, number_of_outlets, number_of_banks, outlet_states,
                   telnetVars, initialized, closed, devVars>>

\* get_outlet_state: the range check, then get_outlet_states
TelnetGetOutletState ==
    /\ IsTelnetIdle
    /\ \E outlet \in OutletArgs :
         LET valid == valid_outlet_index(outlet) IN
         IF valid.status # "returned"
         THEN /\ call' = Finished("get_outlet_state", outlet, "none", valid, <<>>)
              /\ UNCHANGED pc
         ELSE IF ~valid.value
         THEN /\ call' = Finished("get_outlet_state", outlet, "none",
                                  get_outlet_value_error(outlet), <<>>)
              /\ UNCHANGED pc
         ELSE IF conn = "closed"
         THEN /\ call' = Finished("get_outlet_state", outlet, "none",
                                  ClosedStreamError, <<>>)
              /\ UNCHANGED pc
         ELSE /\ call' = Running("get_outlet_state", outlet, "none")
              /\ pc' = "query_write"
    /\ UNCHANGED <<clientVars, number_of_outlets, number_of_banks, outlet_states,
                   telnetVars, initialized, closed, devVars>>

\* Mutant: the line is written without its terminator
TelnetCommandLineBare(outlet, command) ==
    "oltctrl index " \o ToString(outlet) \o " act " \o to_telnet_action(command)

\* The line send_outlet_command writes
TelnetCommandLine(outlet, command) ==
    "oltctrl index " \o ToString(outlet) \o " act " \o to_telnet_action(command)
    \o "\r\n"

\* send_outlet_command: outcome and the lines written
TelnetOutletCommand(outlet, command) ==
    LET valid == valid_outlet_index(outlet) IN
    IF valid.status # "returned" THEN [outcome |-> valid, lines |-> <<>>]
    ELSE IF valid.value
    THEN [outcome |-> Return(None), lines |-> <<TelnetCommandLine(outlet, command)>>]
    ELSE [outcome |-> get_outlet_value_error(outlet), lines |-> <<>>]

RECURSIVE WriteEvents(_)
WriteEvents(lines) ==
    IF lines = <<>> THEN <<>> ELSE <<WriteEvent(Head(lines))>> \o WriteEvents(Tail(lines))

\* Fewer than MaxStream of the device's answers lie unread
TelnetSendOutletCommand ==
    /\ IsTelnetIdle
    /\ Len(reader) < MaxStream
    /\ \E outlet \in OutletArgs, command \in OutletCommand :
         LET does == TelnetOutletCommand(outlet, command) IN
         /\ call' = Finished("send_outlet_command", outlet, command, does.outcome,
                             WriteEvents(does.lines))
         /\ writer' = IF conn = "open" THEN writer \o does.lines ELSE writer
    /\ UNCHANGED <<clientVars, number_of_outlets, number_of_banks, outlet_states,
                   conn, reader, pc, initialized, closed, devVars>>

\* close: "exit" is written, then the stream is read to its end
TelnetClose ==
    /\ IsTelnetIdle
    /\ IF conn = "unset"
       THEN /\ call' = Finished("close", 0, "none", Raise("AttributeError", "__writer"),
                                <<>>)
            /\ UNCHANGED <<writer, pc>>
       ELSE /\ call' = [Running("close", 0, "none") EXCEPT
                          !.io = <<WriteEvent("exit\r\n")>>]
            /\ writer' = IF conn = "open" THEN Append(writer, "exit\r\n") ELSE writer
            /\ pc' = "close_read"
    /\ UNCHANGED <<clientVars, number_of_outlets, number_of_banks, outlet_states,
                   conn, reader, initialized, closed, devVars>>

\* Mutant: the read returns whether or not the stream has ended
ReadReturnsAtOnce(stream) == TRUE

\* reader.read() returns when the end of the stream has arrived
ReadReturns(stream) == readuntil(stream, EndOfStream).status = "ok"

\* close: reader.read() returns at the end of the stream, then the writer
\* is closed
TelnetCloseRead ==
    /\ IsTelnet
    /\ pc = "close_read"
    /\ ReadReturns(reader)
    /\ reader' = <<NoText(EndOfStream)>>
    /\ conn' = "closed"
    /\ closed' = TRUE
    /\ call' = [call EXCEPT !.io = Logged(@, ReadEvent(EndOfStream, <<>>)),
                            !.status = "returned"]
    /\ pc' = "idle"
    /\ UNCHANGED <<clientVars, number_of_outlets, number_of_banks, outlet_states,
                   writer, initialized, devVars>>

TelnetNext ==
    \/ TelnetInitialize
    \/ TelnetInitializeStep
    \/ TelnetQueryWrite
    \/ TelnetQueryRead
    \/ TelnetNumberOfOutlets
    \/ TelnetGetBankLoad
    \/ TelnetGetOutletStates
    \/ TelnetGetOutletState
    \/ TelnetSendOutletCommand
    \/ TelnetClose
    \/ TelnetCloseRead

----------------------------------------------------------------------------
(* gui.py: class MainWindow and its state machine.  One behaviour of      *)
(* GuiSpec is one run of the window: the line edit's signals arrive, and  *)
(* the try_ip_address tasks the machine starts run on the event loop.     *)

\* The connection attempts of one behaviour
MaxAttempts == 2
Attempts == 1 .. MaxAttempts

GuiStates == {"WaitingForIpAddress", "Connecting", "Connected"}

\* The machine's transition table: the state after a signal, and whether
\* the signal has a transition in the state at all
MachineTarget(state, signal) ==
    CASE state = "WaitingForIpAddress" /\ signal = "editingFinished" -> "Connecting"
      [] state = "Connecting" /\ signal = "textChanged" -> "WaitingForIpAddress"
      [] state = "Connected" /\ signal = "textChanged" -> "WaitingForIpAddress"
      [] state = "Connecting" /\ signal = "signal_connected_to_ip_address" -> "Connected"
      [] state = "Connecting" /\ signal = "signal_failed_to_connect_to_ip_address" ->
            "WaitingForIpAddress"
      [] OTHER -> "none"

\* The outlet controls enabled once the state is entered: WaitingForIpAddress
\* and Connecting disable all 16, Connected assigns nothing to them
ControlsOnEntry(state, enabled) == IF state = "Connected" THEN enabled ELSE 0

\* The machine takes a signal: a signal without a transition in the current
\* state is dropped
MachineTakes(state, signal, enabled) ==
    IF MachineTarget(state, signal) = "none"
    THEN [state |-> state, enabled |-> enabled, entered |-> FALSE]
    ELSE [state |-> MachineTarget(state, signal),
          enabled |-> ControlsOnEntry(MachineTarget(state, signal), enabled),
          entered |-> TRUE]

\* What await self.__pdu.initialize() may do to a hardware session: raise, or
\* return with the count the device answered stored
HardwareInitializeOutcomes ==
    {[ok |-> FALSE, count |-> 0]} \cup {[ok |-> TRUE, count |-> n] : n \in 0 .. MaxOutlets}

\* The simulated session's initialize stores its 16 outlets and returns
SimulationInitializeOutcome == [ok |-> TRUE, count |-> SimulatedOutlets]

\* The LEDs checked once the state is entered: WaitingForIpAddress and
\* Connecting assign checked False to all 16 controls, Connected assigns
\* nothing to them
LedsOnEntry(state, checked) == IF state = "Connected" THEN checked ELSE {}

\* The button clicks of one behaviour, and the outlet controls followed (the
\* window builds 16)
MaxClicks == 1
Clicks == 1 .. MaxClicks
Controls == 1 .. MaxOutlets

NoPoll == [pc |-> "none", index |-> 0, n |-> 0]
NoClick == [control |-> 0, state |-> FALSE, pc |-> "none", sent |-> <<>>, timers |-> <<>>]

\* send_outlet_command: the command of a button
ButtonCommand(state) == IF state THEN "IMMEDIATE_ON" ELSE "IMMEDIATE_OFF"

\* A call on self.__pdu for outlet goes to the object held at that moment: a
\* session without a count, or with fewer outlets, raises at once
HeldAccepts(outlet) == gui_pdu \in Attempts /\ outlet <= pdu_count[gui_pdu]

\* What an awaited hardware get_outlet_state may give
HardwareStateOutcomes == {"on", "off", "raised"}

\* outlet_control.checked = value
LedSet(checked, control, value) ==
    IF value THEN checked \cup ({control} \cap Controls) ELSE checked \ {control}

\* A signal of the line edit reaches the machine
GuiSignal(signal, enabled) ==
    LET after == MachineTakes(gui_state, signal, enabled) IN
    /\ gui_state' = after.state
    /\ gui_enabled' = after.enabled
    /\ gui_checked' = IF after.entered THEN LedsOnEntry(after.state, gui_checked)
                      ELSE gui_checked
    /\ IF after.entered /\ after.state = "Connecting"
       THEN \E k \in Attempts :
              /\ gui_tasks[k] = "none"
              /\ \A j \in 1 .. k - 1 : gui_tasks[j] # "none"
              /\ gui_tasks' = [gui_tasks EXCEPT ![k] = "scheduled"]
       ELSE UNCHANGED gui_tasks

\* ip_address.editingFinished
EditingFinished ==
    /\ gui_state = "WaitingForIpAddress"
    /\ \E k \in Attempts : gui_tasks[k] = "none"
    /\ GuiSignal("editingFinished", gui_enabled)
    /\ UNCHANGED <<SIMULATE_HARDWARE, gui_pdu, gui_number_of_outlets, gui_polling,
                   gui_clicks, pdu_on, pdu_initialized, pdu_count, libVars>>

\* ip_address.textChanged
TextChanged ==
    /\ gui_state \in {"Connecting", "Connected"}
    /\ GuiSignal("textChanged", gui_enabled)
    /\ UNCHANGED <<SIMULATE_HARDWARE, gui_pdu, gui_number_of_outlets, gui_polling,
                   gui_clicks, pdu_on, pdu_initialized, pdu_count, libVars>>

\* try_ip_address after its await: the count is read from the object the
\* window holds now, the controls are enabled and the success signal is
\* emitted; any exception emits the failure signal.  Entering Connected
\* schedules a get_outlet_statuses task
TryIpAddressAfterAwait(k, outcome, held) ==
    /\ pdu_initialized' = [pdu_initialized EXCEPT ![k] = outcome.ok]
    /\ pdu_count' = [pdu_count EXCEPT ![k] = outcome.count]
    /\ gui_tasks' = [gui_tasks EXCEPT ![k] = "done"]
    /\ IF outcome.ok /\ pdu_count'[held] # 0
       THEN /\ gui_number_of_outlets' = pdu_count'[held]
            /\ \E enabled \in {IF gui_enabled < pdu_count'[held] THEN pdu_count'[held]
                               ELSE gui_enabled} :
                 \E after \in {MachineTakes(gui_state, "signal_connected_to_ip_address",
                                            enabled)} :
                   /\ gui_state' = after.state
                   /\ gui_enabled' = after.enabled
                   /\ gui_checked' = IF after.entered
                                     THEN LedsOnEntry(after.state, gui_checked)
                                     ELSE gui_checked
                   /\ gui_polling' = IF after.entered
                                     THEN [gui_polling EXCEPT
                                             ![k] = [NoPoll EXCEPT !.pc = "scheduled"]]
                                     ELSE gui_polling
       ELSE /\ UNCHANGED gui_number_of_outlets
            /\ \E after \in {MachineTakes(gui_state,
                                          "signal_failed_to_connect_to_ip_address",
                                          gui_enabled)} :
                 /\ gui_state' = after.state
                 /\ gui_enabled' = after.enabled
                 /\ gui_checked' = IF after.entered
                                   THEN LedsOnEntry(after.state, gui_checked)
                                   ELSE gui_checked
                 /\ UNCHANGED gui_polling

\* try_ip_address from its start: a new CyberPowerPDU replaces the object
\* the window holds; the simulated initialize never suspends and leaves all
\* its outlets off, the hardware one waits for the device
TryIpAddress ==
    \E k \in Attempts :
      /\ gui_tasks[k] = "scheduled"
      /\ \A j \in 1 .. k - 1 : gui_tasks[j] # "scheduled"
      /\ gui_pdu' = k
      /\ IF SIMULATE_HARDWARE
         THEN /\ TryIpAddressAfterAwait(k, SimulationInitializeOutcome, k)
              /\ pdu_on' = {}
         ELSE /\ gui_tasks' = [gui_tasks EXCEPT ![k] = "awaiting"]
              /\ UNCHANGED <<gui_state, gui_enabled, gui_polling, gui_number_of_outlets,
                             gui_checked, pdu_on, pdu_initialized, pdu_count>>
      /\ UNCHANGED <<SIMULATE_HARDWARE, gui_clicks, libVars>>

\* The hardware initialize of a task ends, and the task runs to its end
TryIpAddressResume ==
    \E k \in Attempts :
      /\ gui_tasks[k] = "awaiting"
      /\ \E outcome \in HardwareInitializeOutcomes :
           TryIpAddressAfterAwait(k, outcome, gui_pdu)
      /\ UNCHANGED <<SIMULATE_HARDWARE, gui_pdu, gui_clicks, pdu_on, libVars>>

\* get_outlet_statuses at index of its range(0, n): the loop is over, or the
\* next get_outlet_state is called on the held object and awaited
PollCalls(index, n) ==
    IF index >= n THEN [NoPoll EXCEPT !.pc = "done"]
    ELSE IF HeldAccepts(index + 1) THEN [pc |-> "awaiting", index |-> index, n |-> n]
    ELSE [NoPoll EXCEPT !.pc = "raised"]

\* get_outlet_statuses, started on entry to Connected: the range is taken
\* from __number_of_outlets once.  The simulated get_outlet_state never
\* suspends, so the loop sets every LED in one go; the hardware one is
\* awaited outlet by outlet
GetOutletStatuses ==
    \E k \in Attempts :
      /\ gui_polling[k].pc = "scheduled"
      /\ IF SIMULATE_HARDWARE /\ HeldAccepts(gui_number_of_outlets)
         THEN /\ gui_polling' = [gui_polling EXCEPT ![k] = [NoPoll EXCEPT !.pc = "done"]]
              /\ gui_checked' = (gui_checked \ (1 .. gui_number_of_outlets))
                                    \cup (pdu_on \cap (1 .. gui_number_of_outlets))
         ELSE /\ gui_polling' = [gui_polling EXCEPT
                                   ![k] = PollCalls(0, gui_number_of_outlets)]
              /\ UNCHANGED gui_checked
      /\ UNCHANGED <<SIMULATE_HARDWARE, gui_state, gui_tasks, gui_pdu, gui_enabled,
                     gui_number_of_outlets, gui_clicks, pdu_on, pdu_initialized,
                     pdu_count, libVars>>

\* The get_outlet_state a get_outlet_statuses task awaits ends: an exception
\* ends the task, a state sets the control's LED and the loop goes on
GetOutletStatusesResume ==
    \E k \in Attempts, outcome \in HardwareStateOutcomes :
      /\ gui_polling[k].pc = "awaiting"
      /\ IF outcome = "raised"
         THEN /\ gui_polling' = [gui_polling EXCEPT ![k] = [NoPoll EXCEPT !.pc = "raised"]]
              /\ UNCHANGED gui_checked
         ELSE /\ gui_polling' = [gui_polling EXCEPT
                                   ![k] = PollCalls(gui_polling[k].index + 1,
                                                    gui_polling[k].n)]
              /\ gui_checked' = LedSet(gui_checked, gui_polling[k].index + 1,
                                       outcome = "on")
      /\ UNCHANGED <<SIMULATE_HARDWARE, gui_state, gui_tasks, gui_pdu, gui_enabled,
                     gui_number_of_outlets, gui_clicks, pdu_on, pdu_initialized,
                     pdu_count, libVars>>

\* An On or Off button of an enabled outlet control is clicked: the lambda
\* schedules a send_outlet_command task for that control
ButtonClicked ==
    \E c \in Clicks, control \in Controls, state \in BOOLEAN :
      /\ gui_clicks[c].pc = "none"
      /\ \A d \in 1 .. c - 1 : gui_clicks[d].pc # "none"
      /\ control <= gui_enabled
      /\ gui_clicks' = [gui_clicks EXCEPT ![c] = [NoClick EXCEPT !.control = control,
                                                                  !.state = state,
                                                                  !.pc = "scheduled"]]
      /\ UNCHANGED <<SIMULATE_HARDWARE, gui_state, gui_tasks, gui_pdu, gui_enabled,
                     gui_number_of_outlets, gui_polling, gui_checked, pdu_on,
                     pdu_initialized, pdu_count, libVars>>

\* Mutant: the two status reads are scheduled whether or not the command
\* call has returned
ScheduledReadsAlways(control, returned) ==
    <<[outlet |-> control, pc |-> "armed"], [outlet |-> control, pc |-> "armed"]>>

\* send_outlet_command after its await: two single-shot timers, each for a
\* get_outlet_status of the control that was clicked; an exception of the
\* command call leaves the coroutine before them
ScheduledReads(control, returned) ==
    IF returned
    THEN <<[outlet |-> control, pc |-> "armed"], [outlet |-> control, pc |-> "armed"]>>
    ELSE <<>>

\* send_outlet_command from its start: the command for the control's outlet
\* goes to the held object.  The simulated session sets its outlet and
\* returns; the hardware session is awaited, unless it raises at once
SendOutletCommand ==
    \E c \in Clicks :
      /\ gui_clicks[c].pc = "scheduled"
      /\ \E sent \in {<<[outlet |-> gui_clicks[c].control,
                         command |-> ButtonCommand(gui_clicks[c].state)]>>} :
           IF ~HeldAccepts(gui_clicks[c].control)
           THEN /\ gui_clicks' = [gui_clicks EXCEPT
                                    ![c].pc = "failed", ![c].sent = sent,
                                    ![c].timers = ScheduledReads(gui_clicks[c].control,
                                                                 FALSE)]
                /\ UNCHANGED pdu_on
           ELSE IF SIMULATE_HARDWARE
           THEN /\ gui_clicks' = [gui_clicks EXCEPT
                                    ![c].pc = "returned", ![c].sent = sent,
                                    ![c].timers = ScheduledReads(gui_clicks[c].control,
                                                                 TRUE)]
                /\ pdu_on' = LedSet(pdu_on, gui_clicks[c].control, gui_clicks[c].state)
           ELSE /\ gui_clicks' = [gui_clicks EXCEPT ![c].pc = "awaiting", ![c].sent = sent]
                /\ UNCHANGED pdu_on
      /\ UNCHANGED <<SIMULATE_HARDWARE, gui_state, gui_tasks, gui_pdu, gui_enabled,
                     gui_number_of_outlets, gui_polling, gui_checked, pdu_initialized,
                     pdu_count, libVars>>

\* The hardware send_outlet_command a task awaits returns or raises
SendOutletCommandResume ==
    \E c \in Clicks, returned \in BOOLEAN :
      /\ gui_clicks[c].pc = "awaiting"
      /\ gui_clicks' = [gui_clicks EXCEPT
                          ![c].pc = IF returned THEN "returned" ELSE "failed",
                          ![c].timers = ScheduledReads(gui_clicks[c].control, returned)]
      /\ UNCHANGED <<SIMULATE_HARDWARE, gui_state, gui_tasks, gui_pdu, gui_enabled,
                     gui_number_of_outlets, gui_polling, gui_checked, pdu_on,
                     pdu_initialized, pdu_count, libVars>>

\* A single-shot timer of a click times out (the 500 ms one before the
\* 1000 ms one) and its get_outlet_status runs: get_outlet_state of the
\* timer's control on the held object, whose answer sets the control's LED
GetOutletStatus ==
    \E c \in Clicks, i \in 1 .. 2 :
      /\ Len(gui_clicks[c].timers) = 2
      /\ gui_clicks[c].timers[i].pc = "armed"
      /\ i = 2 => gui_clicks[c].timers[1].pc # "armed"
      /\ IF ~HeldAccepts(gui_clicks[c].timers[i].outlet)
         THEN /\ gui_clicks' = [gui_clicks EXCEPT ![c].timers[i].pc = "raised"]
              /\ UNCHANGED gui_checked
         ELSE IF SIMULATE_HARDWARE
         THEN /\ gui_clicks' = [gui_clicks EXCEPT ![c].timers[i].pc = "done"]
              /\ gui_checked' = LedSet(gui_checked, gui_clicks[c].timers[i].outlet,
                                       gui_clicks[c].timers[i].outlet \in pdu_on)
         ELSE /\ gui_clicks' = [gui_clicks EXCEPT ![c].timers[i].pc = "reading"]
              /\ UNCHANGED gui_checked
      /\ UNCHANGED <<SIMULATE_HARDWARE, gui_state, gui_tasks, gui_pdu, gui_enabled,
                     gui_number_of_outlets, gui_polling, pdu_on, pdu_initialized,
                     pdu_count, libVars>>

\* The hardware get_outlet_state a get_outlet_status task awaits ends
GetOutletStatusResume ==
    \E c \in Clicks, i \in 1 .. 2, outcome \in HardwareStateOutcomes :
      /\ Len(gui_clicks[c].timers) = 2
      /\ gui_clicks[c].timers[i].pc = "reading"
      /\ IF outcome = "raised"
         THEN /\ gui_clicks' = [gui_clicks EXCEPT ![c].timers[i].pc = "raised"]
              /\ UNCHANGED gui_checked
         ELSE /\ gui_clicks' = [gui_clicks EXCEPT ![c].timers[i].pc = "done"]
              /\ gui_checked' = LedSet(gui_checked, gui_clicks[c].timers[i].outlet,
                                       outcome = "on")
      /\ UNCHANGED <<SIMULATE_HARDWARE, gui_state, gui_tasks, gui_pdu, gui_enabled,
                     gui_number_of_outlets, gui_polling, pdu_on, pdu_initialized,
                     pdu_count, libVars>>

\* MainWindow.__init__ and initialize: the machine starts in its initial
\* state, no object is held, all controls are disabled and all LEDs off
GuiStart ==
    /\ gui_state = "WaitingForIpAddress"
    /\ gui_tasks = [k \in Attempts |-> "none"]
    /\ gui_pdu = 0
    /\ gui_number_of_outlets = 0
    /\ gui_enabled = 0
    /\ gui_polling = [k \in Attempts |-> NoPoll]
    /\ gui_checked = {}
    /\ gui_clicks = [c \in Clicks |-> NoClick]
    /\ pdu_on = {}
    /\ pdu_initialized = [k \in Attempts |-> FALSE]
    /\ pdu_count = [k \in Attempts |-> 0]

----------------------------------------------------------------------------
(* Concurrent calls on one SNMP session.  One behaviour of ConcurrentSpec *)
(* is one initialized session on which several tasks await a call each;   *)
(* a call runs to its await, the device answers the requests in any       *)
(* order, and a call goes on when its own exchange holds the response.    *)

\* The tasks of one behaviour
MaxCalls == 2
Tasks == 1 .. MaxCalls

\* The indices and commands the tasks pass
ConcurrentOutletArgs == 1 .. MaxOutlets + 1
ConcurrentCommands == {"IMMEDIATE_ON", "IMMEDIATE_OFF"}

IsAsyncSession == client = "AsyncCyberPowerPDUHardware"

NoRequest == [kind |-> "none", community |-> "", oid |-> "", value |-> 0]
NoExchange == [state |-> "none", request |-> NoRequest, reply |-> NoReply]
NoAnswer == [request |-> NoRequest, reply |-> NoReply]

\* Mutant: the session keeps one exchange for all its calls, and a call
\* takes the first response that has come in
SharedExchange(t) ==
    IF \E u \in Tasks : exchange[u].state = "answered"
    THEN exchange[CHOOSE u \in Tasks : exchange[u].state = "answered"]
    ELSE exchange[t]

\* get_data and set_data make an SnmpEngine and a transport target of their
\* own for every request, and puresnmp's client sends each request on its
\* own: the response a call awaits is the one in its own exchange
OwnExchange(t) == exchange[t]

\* The device's answers to a request: what the address holds (a set is
\* accepted), or no answer in time
DeviceReplies(request) ==
    {Reply("No SNMP response received before timeout", "", SnmpNull)}
    \cup IF request.kind = "set" THEN {Reply("", "", SnmpNull)}
         ELSE {Reply("", "", v) : v \in DeviceMib(request.oid)}

\* A call that ends without awaiting, or awaits the response to request
TaskStarts(t, op, arg, cmd, does) ==
    /\ tasks[t].op = "none"
    /\ \A u \in 1 .. t - 1 : tasks[u].op # "none"
    /\ IF does.io = <<>>
       THEN /\ tasks' = [tasks EXCEPT ![t] = Finished(op, arg, cmd, does.outcome, <<>>)]
            /\ UNCHANGED exchange
       ELSE /\ tasks' = [tasks EXCEPT ![t] = [Running(op, arg, cmd) EXCEPT !.io = does.io]]
            /\ exchange' = [exchange EXCEPT ![t] = [state |-> "sent",
                                                    request |-> does.io[1],
                                                    reply |-> NoReply]]
    /\ UNCHANGED <<answered, guiVars, client, session, number_of_outlets,
                   number_of_banks, outlet_states, telnetVars, pc, call, initialized,
                   closed, devVars>>

\* get_outlet_state: the range check, then the request
ConcurrentGetOutletState ==
    \E t \in Tasks, outlet \in ConcurrentOutletArgs :
      TaskStarts(t, "get_outlet_state", outlet, "none",
                 IF IsAsyncSession THEN SnmpOutletState(outlet, NoReply)
                 ELSE HwOutletState(outlet, NoReply))

\* send_outlet_command: the range check, then the request
ConcurrentSendOutletCommand ==
    \E t \in Tasks, outlet \in ConcurrentOutletArgs, command \in ConcurrentCommands :
      TaskStarts(t, "send_outlet_command", outlet, command,
                 IF IsAsyncSession THEN SnmpOutletCommand(outlet, command, NoReply)
                 ELSE HwOutletCommand(outlet, command, NoReply))

\* initialize, called again: the first count is asked for
ConcurrentInitialize ==
    \E t \in Tasks :
      TaskStarts(t, "initialize", 0, "none",
                 [outcome |-> Return(None),
                  io |-> IF IsAsyncSession THEN <<GetRequest(OidNumberOfBanks)>>
                         ELSE <<HwGetRequest(OidNumberOfOutlets)>>])

\* The device answers one of the requests it has received, whichever
DeviceAnswers ==
    \E t \in Tasks :
      /\ exchange[t].state = "sent"
      /\ \E reply \in DeviceReplies(exchange[t].request) :
           /\ exchange' = [exchange EXCEPT ![t].state = "answered", ![t].reply = reply]
           /\ answered' = [answered EXCEPT ![t] = [request |-> exchange[t].request,
                                                   reply |-> reply]]
           /\ dev_on' = DeviceAfterSet(<<exchange[t].request>>, reply).on
           /\ dev_pending' = DeviceAfterSet(<<exchange[t].request>>, reply).pending
      /\ UNCHANGED <<tasks, guiVars, client, session, number_of_outlets, number_of_banks,
                     outlet_states, telnetVars, pc, call, initialized, closed,
                     dev_n, dev_login, dev_case, dev_named>>

\* What a call makes of the response it awaited
TaskDecoded(task, reply) ==
    CASE task.op = "get_outlet_state" ->
            IF IsAsyncSession THEN get_outlet_state(reply) ELSE HwDecodedState(reply)
      [] task.op = "send_outlet_command" ->
            IF IsAsyncSession THEN set_data(reply) ELSE client_set(reply)
      [] OTHER ->
            IF IsAsyncSession THEN get_integer_data(reply) ELSE int_of(client_get(reply))

\* A call whose exchange holds the response goes on: get_outlet_state and
\* send_outlet_command end; initialize stores the count and, on the async
\* client after the bank count, asks for the outlet count
TaskResumes ==
    \E t \in Tasks :
      /\ OwnExchange(t).state = "answered"
      /\ \E got \in {TaskDecoded(tasks[t], OwnExchange(t).reply)} :
           IF tasks[t].op = "initialize" /\ got.status = "returned"
           THEN IF IsAsyncSession /\ Len(tasks[t].io) = 1
                THEN /\ number_of_banks' = got.value
                     /\ tasks' = [tasks EXCEPT
                                    ![t].io = @ \o <<GetRequest(OidNumberOfOutlets)>>]
                     /\ exchange' = [exchange EXCEPT
                                       ![t] = [state |-> "sent",
                                               request |-> GetRequest(OidNumberOfOutlets),
                                               reply |-> NoReply]]
                     /\ UNCHANGED number_of_outlets
                ELSE /\ number_of_outlets' = got.value
                     /\ tasks' = [tasks EXCEPT ![t] = Finished("initialize", 0, "none",
                                                               Return(None), @.io)]
                     /\ exchange' = [exchange EXCEPT ![t] = NoExchange]
                     /\ UNCHANGED number_of_banks
           ELSE /\ tasks' = [tasks EXCEPT
                               ![t] = Finished(@.op, @.arg, @.cmd, got, @.io)]
                /\ exchange' = [exchange EXCEPT ![t] = NoExchange]
                /\ UNCHANGED <<number_of_outlets, number_of_banks>>
      /\ UNCHANGED <<answered, guiVars, client, session, outlet_states, telnetVars, pc,
                     call, initialized, closed, devVars>>

\* No task has called yet
TasksStart ==
    /\ tasks = [t \in Tasks |-> NoCall]
    /\ exchange = [t \in Tasks |-> NoExchange]
    /\ answered = [t \in Tasks |-> NoAnswer]

----------------------------------------------------------------------------
(* The specification *)

\* After construction: nothing is cached and nothing is connected; the
\* device has some number of outlets in some states
Init ==
    /\ client \in Clients
    /\ \E simulate \in BOOLEAN :
         session = IF client = "CyberPowerPDU" THEN SelectSession(simulate) ELSE "none"
    /\ number_of_outlets = 0
    /\ number_of_banks = 0
    /\ outlet_states = <<>>
    /\ conn = "unset"
    /\ reader = <<>>
    /\ writer = <<>>
    /\ pc = "idle"
    /\ call = NoCall
    /\ initialized = FALSE
    /\ closed = FALSE
    /\ dev_n \in IF Active = "CyberPowerPDUSimulation" THEN {0} ELSE 0 .. MaxOutlets
    /\ dev_on \in [1 .. dev_n -> BOOLEAN]
    /\ dev_pending = <<>>
    /\ dev_login = "off"
    /\ dev_case \in IF client = "AsyncTelnetCyberPowerPDUHardware" THEN DeviceCases
                    ELSE {"On/Off"}
    /\ dev_named \in IF client = "AsyncTelnetCyberPowerPDUHardware" /\ dev_case = "On/Off"
                        /\ dev_n = 2
                     THEN DeviceNamings ELSE {{}}
    /\ SIMULATE_HARDWARE = TRUE
    /\ GuiStart
    /\ TasksStart

Next ==
    \/ SnmpNext
    \/ FacadeNext
    \/ TelnetNext
    \/ DeviceGreet
    \/ DeviceProcess
    \/ DeviceApply
    \/ DeviceReconfigure

Spec == Init /\ [][Next]_vars

\* The event loop resumes a coroutine that can continue, and the device
\* answers the lines it has received
FairSpec ==
    /\ Spec
    /\ WF_streamVars(TelnetInitializeStep)
    /\ WF_streamVars(TelnetQueryWrite)
    /\ WF_streamVars(TelnetQueryRead)
    /\ WF_streamVars(DeviceGreet)
    /\ WF_streamVars(DeviceProcess)

\* The window of gui.py: the library's own state stays as constructed. The
\* switch SIMULATE_HARDWARE is True in the source; both settings are run
GuiInit ==
    /\ SIMULATE_HARDWARE \in BOOLEAN
    /\ GuiStart
    /\ client = "CyberPowerPDU"
    /\ session = SelectSession(SIMULATE_HARDWARE)
    /\ number_of_outlets = 0
    /\ number_of_banks = 0
    /\ outlet_states = <<>>
    /\ conn = "unset"
    /\ reader = <<>>
    /\ writer = <<>>
    /\ pc = "idle"
    /\ call = NoCall
    /\ initialized = FALSE
    /\ closed = FALSE
    /\ dev_n = 0
    /\ dev_on = <<>>
    /\ dev_pending = <<>>
    /\ dev_login = "off"
    /\ dev_case = "On/Off"
    /\ dev_named = {}
    /\ TasksStart

GuiNext ==
    \/ EditingFinished
    \/ TextChanged
    \/ TryIpAddress
    \/ TryIpAddressResume
    \/ GetOutletStatuses
    \/ GetOutletStatusesResume
    \/ ButtonClicked
    \/ SendOutletCommand
    \/ SendOutletCommandResume
    \/ GetOutletStatus
    \/ GetOutletStatusResume

GuiSpec == GuiInit /\ [][GuiNext]_vars

\* One initialized SNMP session, of the async client or of the facade, on a
\* device with MaxOutlets outlets, on and off in turn; the tasks have not
\* called yet
ConcurrentInit ==
    /\ client \in {"AsyncCyberPowerPDUHardware", "CyberPowerPDU"}
    /\ session = IF client = "CyberPowerPDU" THEN SelectSession(FALSE) ELSE "none"
    /\ number_of_outlets = MaxOutlets
    /\ number_of_banks = IF client = "CyberPowerPDU" THEN 0 ELSE DeviceBanks
    /\ outlet_states = <<>>
    /\ conn = "unset"
    /\ reader = <<>>
    /\ writer = <<>>
    /\ pc = "idle"
    /\ call = NoCall
    /\ initialized = TRUE
    /\ closed = FALSE
    /\ dev_n = MaxOutlets
    /\ dev_on = [o \in 1 .. dev_n |-> o % 2 = 1]
    /\ dev_pending = <<>>
    /\ dev_login = "off"
    /\ dev_case = "On/Off"
    /\ dev_named = {}
    /\ SIMULATE_HARDWARE = TRUE
    /\ GuiStart
    /\ TasksStart

ConcurrentNext ==
    \/ ConcurrentGetOutletState
    \/ ConcurrentSendOutletCommand
    \/ ConcurrentInitialize
    \/ DeviceAnswers
    \/ TaskResumes
    \/ DeviceApply

ConcurrentSpec == ConcurrentInit /\ [][ConcurrentNext]_vars

----------------------------------------------------------------------------
(* Properties *)

DeviceClients == {"AsyncCyberPowerPDUHardware", "AsyncTelnetCyberPowerPDUHardware"}
IndexOps == {"get_outlet_state", "send_outlet_command"}
CallEnded == call.status # "running"

\* The valid indices for the cached count
InRange(outlet) == 1 <= outlet /\ outlet <= number_of_outlets

\* The last call failed with the out-of-range ValueError for its index
IsRangeError ==
    /\ call.status = "ValueError"
    /\ call.value.text = "Invalid outlet value of: " \o ToString(call.arg)
                    \o ". Valid outlet values are 1 to " \o ToString(number_of_outlets)

\* The last call failed with the RuntimeError of an uninitialized session
IsNotInitializedError ==
    call.status = "RuntimeError" /\ call.value.text = NotInitializedMessage

\* C1: on an initialized SNMP or Telnet client with cached count n,
\* get_outlet_state(i) and send_outlet_command(i, c) fail with the
\* out-of-range ValueError exactly when i is outside 1 .. n, and then
\* nothing has been written to the transport.
C1_RangeErrorIffOutside ==
    (client \in DeviceClients /\ initialized /\ call.op \in IndexOps /\ CallEnded)
    => /\ IsRangeError <=> ~InRange(call.arg)
       /\ ~InRange(call.arg) => call.io = <<>>

\* C2: every operation of an SNMP or Telnet client (and of the hardware
\* session) whose initialize() has not completed fails with the
\* not-initialized RuntimeError, whatever its argument, without any I/O.
C2_FailsBeforeInitialize ==
    (Active # "CyberPowerPDUSimulation" /\ ~initialized /\ CallEnded
     /\ call.op \in {"number_of_outlets", "get_outlet_state", "send_outlet_command",
                     "get_bank_load", "get_outlet_states", "get_all_outlet_states"})
    => IsNotInitializedError /\ call.io = <<>>

C4_FacadeValidates ==
    (client = "CyberPowerPDU" /\ initialized /\ call.op \in IndexOps
     /\ ~InRange(call.arg))
    => IsRangeError /\ call.io = <<>>

\* What get_outlet_state(outlet) returns through the facade in this state
FacadeOutletStateValues(outlet) ==
    IF IsSim
    THEN {SimOutletState(outlet).value : x \in {y \in {1} :
                                                  SimOutletState(outlet).status = "returned"}}
    ELSE {HwOutletState(outlet, reply).outcome.value :
            reply \in {r \in DeviceGetReplies(OidOutletState(outlet)) :
                         HwOutletState(outlet, r).outcome.status = "returned"}}

\* C5: on an initialized session, a get_all_outlet_states() that returns
\* gives a list whose length is what number_of_outlets returns and whose
\* element k (from 0) is what get_outlet_state(k + 1) returns for the same
\* device state.  (A step that ends with get_all_outlet_states as the last
\* call and leaves the device as it was is a get_all_outlet_states call.)
C5_AllOutletStates ==
    [][(/\ client = "CyberPowerPDU" /\ initialized
        /\ call'.op = "get_all_outlet_states" /\ call'.status = "returned"
        /\ UNCHANGED <<dev_on, dev_pending>>)
       => /\ number_of_outlets_property.status = "returned"
          /\ Len(call'.value.list) = number_of_outlets_property.value
          /\ \A k \in 1 .. Len(call'.value.list) :
               FacadeOutletStateValues(k) = {call'.value.list[k]}]_vars

\* C5 witness: the hardware session has returned the states of all outlets,
\* not all the same
C5_AllOutletStatesReturned ==
    /\ client = "CyberPowerPDU" /\ ~IsSim /\ initialized
    /\ call.op = "get_all_outlet_states"
    /\ call.status = "returned"
    /\ Len(call.value.list) = MaxOutlets
    /\ call.value.list[1] # call.value.list[MaxOutlets]

\* The request an accepted send_outlet_command(outlet, command) puts on the
\* wire, for the client of this behaviour
CommandRequest(outlet, command) ==
    IF client = "CyberPowerPDU"
    THEN HwOutletCommand(outlet, command, NoReply).io[1]
    ELSE SnmpOutletCommand(outlet, command, NoReply).io[1]

\* The device once it has accepted that request in the state (on, pending)
AfterCommand(on, pending, outlet, command) ==
    DeviceAccepted(on, pending,
                   DeviceControlOutlet(CommandRequest(outlet, command).oid),
                   DeviceCommandOf(CommandRequest(outlet, command).value))

\* The outlets' states once the device has applied what it accepted
Settled(device) == DeviceSettled(device.on, device.pending)

\* What get_outlet_state(outlet) returns in this state
OutletStateValues(outlet) ==
    IF client = "CyberPowerPDU" THEN FacadeOutletStateValues(outlet)
    ELSE {SnmpOutletState(outlet, reply).outcome.value :
            reply \in {r \in DeviceGetReplies(OidOutletState(outlet)) :
                         SnmpOutletState(outlet, r).outcome.status = "returned"}}

\* The indices in range that name an outlet of the PDU
ValidOutlets ==
    IF IsSim THEN 1 .. number_of_outlets ELSE (1 .. number_of_outlets) \cap Outlets

\* C6: for every valid outlet i, once the device has applied an accepted
\* send_outlet_command(i, IMMEDIATE_ON) the outlet is on and a
\* get_outlet_state(i) that returns gives true (false after IMMEDIATE_OFF);
\* the same command issued again leaves every outlet as it was after the
\* first; and no other outlet changes.  SNMP client, hardware session and
\* simulation.
C6_CommandTakesEffect ==
    (client \in {"AsyncCyberPowerPDUHardware", "CyberPowerPDU"} /\ initialized)
    => /\ \A i \in ValidOutlets, c \in {"IMMEDIATE_ON", "IMMEDIATE_OFF"} :
            IF IsSim
            THEN LET once == SimOutletCommand(outlet_states, i, c).states
                     twice == SimOutletCommand(once, i, c).states IN
                 /\ once[i] = (c = "IMMEDIATE_ON")
                 /\ twice = once
                 /\ \A j \in DOMAIN outlet_states : j # i => once[j] = outlet_states[j]
            ELSE LET once == AfterCommand(dev_on, dev_pending, i, c)
                     twice == AfterCommand(once.on, once.pending, i, c) IN
                 /\ Settled(once)[i] = (c = "IMMEDIATE_ON")
                 /\ Settled(twice) = Settled(once)
                 /\ \A j \in Outlets :
                      j # i => Settled(once)[j] = DeviceSettled(dev_on, dev_pending)[j]
       \* the effect of the last command stands while the device applies it
       /\ (call.op = "send_outlet_command" /\ call.status = "returned"
           /\ call.cmd \in {"IMMEDIATE_ON", "IMMEDIATE_OFF"} /\ InRange(call.arg))
          => IF IsSim THEN outlet_states[call.arg] = (call.cmd = "IMMEDIATE_ON")
             ELSE DeviceSettled(dev_on, dev_pending)[call.arg]
                  = (call.cmd = "IMMEDIATE_ON")
       \* a read returns the state the outlet is in
       /\ \A i \in ValidOutlets :
            OutletStateValues(i) = {IF IsSim THEN outlet_states[i] ELSE dev_on[i]}

\* C6 witness: the device has applied an IMMEDIATE_ON sent by the SNMP
\* client, and another outlet is off
C6_TurnedOn ==
    /\ client = "AsyncCyberPowerPDUHardware" /\ initialized
    /\ call.op = "send_outlet_command" /\ call.status = "returned"
    /\ call.cmd = "IMMEDIATE_ON"
    /\ dev_pending = <<>>
    /\ dev_on[call.arg]
    /\ \E j \in Outlets : ~dev_on[j]

QueryLine == "oltsta show\r\n"
IsQueryWrite(event) == event.kind = "write" /\ event.line = QueryLine
IsPromptRead(event) == event.kind = "read" /\ event.until = Prompt
\* The dict get_outlet_states makes of the response a read event returned
PageOf(event) == ParseOutletStates(DataOf(event.chunks))

\* The wire log of a get_outlet_states call, in full
FullQueryLog ==
    /\ client = "AsyncTelnetCyberPowerPDUHardware"
    /\ call.op = "get_outlet_states"
    /\ Len(call.io) < MaxLog

\* C7: get_outlet_states returns only a non-empty dict.  Its log is a
\* sequence of rounds (the query written, a response read up to the
\* prompt); every round but the last read a response without a matching
\* line, and after such a response the call goes on to write the query
\* again; the dict returned is the one parsed from the last response.  One
\* response without a match followed by one with a match is two queries.
C7_PollsUntilMatch ==
    FullQueryLog
    => /\ \A k \in DOMAIN call.io :
            IF k % 2 = 1 THEN IsQueryWrite(call.io[k]) ELSE IsPromptRead(call.io[k])
       /\ \A k \in DOMAIN call.io :
            (k % 2 = 0 /\ k < Len(call.io)) => PageOf(call.io[k]) = <<>>
       /\ (call.io # <<>> /\ Len(call.io) % 2 = 0 /\ PageOf(call.io[Len(call.io)]) = <<>>)
          => call.status = "running" /\ pc = "query_write"
       /\ call.status = "returned"
          => /\ call.io # <<>> /\ Len(call.io) % 2 = 0
             /\ call.value.dict # {}
             /\ call.value.dict = DictItems(PageOf(call.io[Len(call.io)]))
       /\ (/\ call.status = "returned" /\ Len(call.io) >= 4
           /\ PageOf(call.io[2]) = <<>> /\ PageOf(call.io[4]) # <<>>)
          => Len(call.io) = 4

\* C7 witness: a response without a match, then one with the outlets
C7_OneRetry ==
    /\ FullQueryLog
    /\ call.status = "returned"
    /\ Len(call.io) = 4
    /\ Cardinality(call.value.dict) = MaxOutlets

\* C8 as stated: the query ends, whatever the device answers.
C8_QueryTerminates == [](pc \in {"query_write", "query_read"} => <>(pc = "idle"))

\* Every response read so far in the call had no matching line
OnlyEmptyPages ==
    /\ call.io # <<>>
    /\ \A k \in DOMAIN call.io : k % 2 = 0 => PageOf(call.io[k]) = <<>>

\* C8, amended: the query has no ceiling.  As long as every response lacks
\* a matching line the call neither returns nor fails: it writes the query
\* again, however many responses it has read.
C8_PollsWithoutCeiling ==
    (FullQueryLog /\ OnlyEmptyPages)
    => /\ call.status = "running"
       /\ pc \in {"query_write", "query_read"}
       /\ Len(call.io) % 2 = 0 => pc = "query_write"

\* C8 witness: three responses without a match, and the call polls on
C8_StillPolling ==
    /\ FullQueryLog /\ OnlyEmptyPages
    /\ Len(call.io) = 6
    /\ dev_n > 0
    /\ pc = "query_write"

\* A read up to marker comes before position k of the log
ReadBefore(io, k, marker) ==
    \E j \in 1 .. k - 1 : io[j].kind = "read" /\ io[j].until = marker

\* initialize is at a readuntil whose marker has not arrived
AwaitsMarker ==
    /\ pc \in InitializeLabels
    /\ StatementAt(pc).do = "readuntil"
    /\ MarkerPosition(reader, StatementAt(pc).data, 1) = 0

\* C9: in the Telnet initialize the username is written only after a read
\* up to "Login Name: ", the password only after a read up to
\* "Login Password: ", the first query only after a read up to the prompt;
\* the count becomes non-zero only in an initialize that has done all three
\* reads; and while an awaited marker has not arrived initialize does not
\* move and the session stays uninitialized.
C9_HandshakeOrder ==
    /\ []((client = "AsyncTelnetCyberPowerPDUHardware" /\ call.op = "initialize")
          => /\ \A k \in DOMAIN call.io :
                  /\ (call.io[k].kind = "write" /\ call.io[k].line = "test-username\r\n")
                     => ReadBefore(call.io, k, LoginNameMarker)
                  /\ (call.io[k].kind = "write" /\ call.io[k].line = "test-password\r\n")
                     => /\ ReadBefore(call.io, k, LoginPasswordMarker)
                        /\ \E j \in 1 .. k - 1 : call.io[j].line = "test-username\r\n"
                  /\ IsQueryWrite(call.io[k])
                     => /\ ReadBefore(call.io, k, Prompt)
                        /\ \E j \in 1 .. k - 1 : call.io[j].line = "test-password\r\n"
             /\ (number_of_outlets # 0 \/ initialized)
                => /\ call.status = "returned"
                   /\ \A m \in {LoginNameMarker, LoginPasswordMarker, Prompt} :
                        ReadBefore(call.io, Len(call.io), m))
    /\ []((client = "AsyncTelnetCyberPowerPDUHardware" /\ number_of_outlets # 0)
          => initialized)
    /\ [][(client = "AsyncTelnetCyberPowerPDUHardware" /\ AwaitsMarker)
          => /\ pc' = pc
             /\ number_of_outlets' = 0
             /\ ~initialized']_vars

\* C9 witness: the handshake has completed and the count is set
C9_Initialized ==
    /\ client = "AsyncTelnetCyberPowerPDUHardware"
    /\ call.op = "initialize" /\ call.status = "returned"
    /\ initialized
    /\ number_of_outlets = MaxOutlets

\* C10: for a valid outlet i, the Telnet send_outlet_command(i, c) writes
\* the one line "oltctrl index i act a\r\n", a being on, off or reboot for
\* c, reads nothing and returns; (5, IMMEDIATE_REBOOT) gives
\* "oltctrl index 5 act reboot\r\n".
C10_OneCommandLine ==
    /\ TelnetCommandLine(5, "IMMEDIATE_REBOOT") = "oltctrl index 5 act reboot\r\n"
    /\ (/\ client = "AsyncTelnetCyberPowerPDUHardware" /\ initialized
        /\ call.op = "send_outlet_command" /\ InRange(call.arg))
       => /\ call.status = "returned"
          /\ Len(call.io) = 1
          /\ call.io[1].kind = "write"
          /\ call.io[1].line =
               "oltctrl index " \o ToString(call.arg) \o " act "
               \o (CASE call.cmd = "IMMEDIATE_ON" -> "on"
                     [] call.cmd = "IMMEDIATE_OFF" -> "off"
                     [] call.cmd = "IMMEDIATE_REBOOT" -> "reboot")
               \o "\r\n"

\* C10 witness: a reboot of the last outlet has been written
C10_RebootWritten ==
    /\ client = "AsyncTelnetCyberPowerPDUHardware" /\ initialized
    /\ call.op = "send_outlet_command" /\ call.status = "returned"
    /\ call.cmd = "IMMEDIATE_REBOOT"
    /\ call.arg = MaxOutlets
    /\ call.io # <<>>

\* The tables among the chunks of a response
TableChunks(chunks) == {j \in DOMAIN chunks : chunks[j].prints = "table"}

\* The states the device printed in a response, outlet by outlet; a later
\* line for an outlet stands for an earlier one
PrintedStates(chunks) ==
    [o \in UNION {DOMAIN chunks[j].shows : j \in TableChunks(chunks)} |->
        LET last == CHOOSE j \in TableChunks(chunks) :
                        /\ o \in DOMAIN chunks[j].shows
                        /\ \A i \in TableChunks(chunks) :
                             o \in DOMAIN chunks[i].shows => i <= j IN
        chunks[last].shows[o]]

\* The two lines of the example
ExampleLines ==
    <<"1", " ", " ", "O", "u", "t", "l", "e", "t", "1", " ", " ", " ", "O", "n", "\r", "\n",
      "2", " ", " ", "O", "u", "t", "l", "e", "t", "2", " ", " ", " ", "O", "f", "f", "\r", "\n">>

\* C11: the parser maps a response to the states of the lines index, name,
\* On/Off that the device printed in it, whatever the case of the On/Off
\* word; the lines "1  Outlet1   On" and "2  Outlet2   Off" give
\* {1: true, 2: false}.
C11_ParsesEveryCase ==
    /\ ParseOutletStates(ExampleLines) = <<TRUE, FALSE>>
    /\ client = "AsyncTelnetCyberPowerPDUHardware"
       => \A k \in DOMAIN call.io :
            IsPromptRead(call.io[k])
            => PageOf(call.io[k]) = PrintedStates(call.io[k].chunks)

\* The answers to a get of outlet's status that carry an integer
IntegerStatusReplies(outlet) ==
    {r \in DeviceGetReplies(OidOutletState(outlet)) :
       /\ r.error_indication = "" /\ r.error_status = ""
       /\ r.value.type \in IntegerTypes}

\* The outcome the claim gives for a status integer
DecodedStatus(v) ==
    IF v = 1 THEN Return(TRUE)
    ELSE IF v = 2 THEN Return(FALSE)
    ELSE Raise("ValueError",
               "Received unexpected value for outlet state: " \o ToString(v))

UnexpectedStatusText == "Received unexpected value for outlet state: "

\* C12: an outlet-status integer 1 decodes to true, 2 to false, and every
\* other integer fails the call with the unexpected-value ValueError, in the
\* SNMP client and in the hardware session; a get_outlet_state that returns
\* has decoded a 1 or a 2 that the device can answer with, one that fails
\* with the unexpected-value error names an integer other than 1 and 2.
C12_StatusDecoding ==
    /\ [](Active \in {"AsyncCyberPowerPDUHardware", "CyberPowerPDUHardware"}
          => \A outlet \in 1 .. MaxOutlets + 1 : \A r \in IntegerStatusReplies(outlet) :
               /\ get_outlet_state(r) = DecodedStatus(r.value.v)
               /\ valid_outlet_index(outlet) = Return(TRUE)
                  => HwOutletState(outlet, r).outcome = DecodedStatus(r.value.v))
    /\ [][(/\ Active \in {"AsyncCyberPowerPDUHardware", "CyberPowerPDUHardware"}
           /\ call'.op = "get_outlet_state"
           /\ UNCHANGED <<dev_on, dev_pending>>)
          => /\ call'.status = "returned"
                => \E r \in IntegerStatusReplies(call'.arg) :
                     r.value.v \in {1, 2} /\ call'.value.on = (r.value.v = 1)
             /\ (call'.status = "ValueError" /\ call'.io # <<>>)
                => \E r \in DeviceGetReplies(OidOutletState(call'.arg)) :
                     \/ /\ r \in IntegerStatusReplies(call'.arg)
                        /\ r.value.v \notin {1, 2}
                        /\ call'.value.text = UnexpectedStatusText \o ToString(r.value.v)
                     \/ /\ r.value.type = "OctetString"
                        /\ call'.value.text \notin
                             {UnexpectedStatusText \o ToString(v) : v \in -1 .. 3}]_vars

\* C12 witness: a get_outlet_state has failed on the status integer -1
C12_UnexpectedStatus ==
    /\ Active \in {"AsyncCyberPowerPDUHardware", "CyberPowerPDUHardware"}
    /\ call.op = "get_outlet_state"
    /\ call.status = "ValueError"
    /\ call.io # <<>>
    /\ call.value.text = UnexpectedStatusText \o "-1"

SnmpSessions == {"AsyncCyberPowerPDUHardware", "CyberPowerPDUHardware"}

\* C13: for a valid outlet i and a command c, send_outlet_command(i, c) of
\* the SNMP client and of the hardware session sends one request, a set of
\* the outlet-control address with i appended to the integer 1 for
\* IMMEDIATE_ON, 2 for IMMEDIATE_OFF, 3 for IMMEDIATE_REBOOT;
\* get_outlet_state(i) sends one request, a get of the outlet-status
\* address with i appended.
C13_OneRequest ==
    (Active \in SnmpSessions /\ call.op \in IndexOps /\ InRange(call.arg))
    => /\ Len(call.io) = 1
       /\ call.op = "send_outlet_command"
          => /\ call.io[1].kind = "set"
             /\ call.io[1].oid = ".1.3.6.1.4.1.3808.1.1.3.3.3.1.1.4."
                                 \o ToString(call.arg)
             /\ call.io[1].value = (CASE call.cmd = "IMMEDIATE_ON" -> 1
                                      [] call.cmd = "IMMEDIATE_OFF" -> 2
                                      [] call.cmd = "IMMEDIATE_REBOOT" -> 3)
       /\ call.op = "get_outlet_state"
          => /\ call.io[1].kind = "get"
             /\ call.io[1].oid = ".1.3.6.1.4.1.3808.1.1.3.3.5.1.1.4."
                                 \o ToString(call.arg)

\* C13 witness: the hardware session has sent a reboot to the last outlet
C13_RebootSent ==
    /\ Active = "CyberPowerPDUHardware"
    /\ call.op = "send_outlet_command" /\ call.cmd = "IMMEDIATE_REBOOT"
    /\ call.arg = MaxOutlets /\ InRange(call.arg)
    /\ call.status = "returned"
    /\ call.io # <<>>

\* An answer that reports a failure, and the text the failure carries: the
\* error indication if there is one, else the error status
IsErrorReply(r) == r.error_indication # "" \/ r.error_status # ""
ErrorText(r) == IF r.error_indication # "" THEN r.error_indication ELSE r.error_status
ErrorTexts == {"No SNMP response received before timeout", "noSuchName", "genErr"}

\* C14: in the SNMP client of async_api.py, an error indication or an error
\* status in the answer to a get or to a set fails the call with a
\* RuntimeError that carries the indication, or else the status; the
\* request is sent once: an operation that failed so has one request in
\* its log, an initialize its requests to distinct addresses.
C14_ErrorFailsCall ==
    client = "AsyncCyberPowerPDUHardware"
    => /\ \A r \in DeviceGetReplies(OidNumberOfOutlets)
                  \cup DeviceSetReplies(OidOutletCommand(1)) :
            IsErrorReply(r)
            => /\ get_data(r) = Raise("RuntimeError", ErrorText(r))
               /\ get_integer_data(r) = Raise("RuntimeError", ErrorText(r))
               /\ set_data(r) = Raise("RuntimeError", ErrorText(r))
       /\ \A outlet \in 1 .. number_of_outlets :
            /\ \A r \in DeviceGetReplies(OidOutletState(outlet)) :
                 IsErrorReply(r)
                 => SnmpOutletState(outlet, r) =
                      [outcome |-> Raise("RuntimeError", ErrorText(r)),
                       io |-> <<GetRequest(OidOutletState(outlet))>>]
            /\ \A r \in DeviceSetReplies(OidOutletCommand(outlet)), c \in OutletCommand :
                 IsErrorReply(r)
                 => /\ SnmpOutletCommand(outlet, c, r).outcome =
                         Raise("RuntimeError", ErrorText(r))
                    /\ Len(SnmpOutletCommand(outlet, c, r).io) = 1
       /\ \A bank \in 1 .. number_of_banks : \A r \in DeviceGetReplies(OidBankLoad(bank)) :
            IsErrorReply(r)
            => SnmpBankLoad(bank, r) = [outcome |-> Raise("RuntimeError", ErrorText(r)),
                                       io |-> <<GetRequest(OidBankLoad(bank))>>]
       /\ (call.status = "RuntimeError" /\ call.io # <<>>)
          => /\ call.value.text \in ErrorTexts
             /\ call.op # "initialize" => Len(call.io) = 1
             /\ \A j, k \in DOMAIN call.io : call.io[j].oid = call.io[k].oid => j = k
\* C14 witness: a set was refused and the call failed with the status text
C14_SetRefused ==
    /\ client = "AsyncCyberPowerPDUHardware"
    /\ call.op = "send_outlet_command"
    /\ call.status = "RuntimeError"
    /\ call.value.text = "noSuchName"
    /\ Len(call.io) = 1

\* The values test_converting_snmp_data_to_python_data converts, and the
\* values the device model answers with
TestedIntegers ==
    {Snmp("Integer32", -1000), Snmp("Integer", 32), Snmp("Integer", -17),
     Snmp("Unsigned32", 32), Snmp("Gauge32", 45)}
TestedStrings == {SnmpText("test"), SnmpText("text")}
TestedOthers == {Snmp("float", 20), Snmp("Bits", 0), SnmpNull}
AnsweredValues ==
    UNION {{r.value : r \in DeviceGetReplies(oid)} :
             oid \in {OidNumberOfOutlets, OidNumberOfBanks}
                     \cup {OidOutletState(o) : o \in 1 .. MaxOutlets}
                     \cup {OidBankLoad(b) : b \in 1 .. DeviceBanks}}

CountOids == {OidNumberOfOutlets, OidNumberOfBanks}

\* C16: once initialize has completed, no step of a later operation, and no
\* change of the device, changes the cached outlet count or bank count, and
\* no operation but initialize sends a request to the address of a count.
C16_CountsOnlyByInitialize ==
    [][/\ initialized
          => /\ number_of_outlets' = number_of_outlets
             /\ number_of_banks' = number_of_banks
       /\ (Active \in SnmpSessions /\ call'.op # "initialize")
          => \A k \in DOMAIN call'.io : call'.io[k].oid \notin CountOids]_vars

\* C16 witness: the device has come to print one outlet more than the
\* cached count, a later get_outlet_states returned them all, and the count
\* is as initialize left it
C16_DeviceReportsMore ==
    /\ client = "AsyncTelnetCyberPowerPDUHardware"
    /\ initialized
    /\ call.op = "get_outlet_states"
    /\ call.status = "returned"
    /\ Cardinality(call.value.dict) = number_of_outlets + 1
    /\ dev_n = number_of_outlets + 1

\* C17: a read of the outlet count after initialize has completed returns
\* the count that initialize stored, whatever count the device reported, and
\* a read before initialize fails with the not-initialized RuntimeError.
C17_CountReadable ==
    call.op = "number_of_outlets"
    => IF initialized
       THEN /\ call.status = "returned"
            /\ call.value.number = number_of_outlets
       ELSE IsNotInitializedError

\* C18: the facade has one session, the one its constructor chose from the
\* simulate argument; no step replaces it, and every operation of the
\* facade runs on it: on the simulation nothing is sent and the count is
\* the simulated one, on the hardware session every request is one of that
\* session's and initialize sends its request.
C18_OneSession ==
    /\ [](client = "CyberPowerPDU"
          => /\ session \in {SelectSession(simulate) : simulate \in BOOLEAN}
             /\ session = "CyberPowerPDUSimulation"
                => /\ call.io = <<>>
                   /\ initialized => number_of_outlets = SimulatedOutlets
                   /\ (call.op = "number_of_outlets" /\ call.status = "returned")
                      => call.value.number = SimulatedOutlets
             /\ session = "CyberPowerPDUHardware"
                => /\ \A k \in DOMAIN call.io :
                        \/ \E o \in OutletArgs, c \in OutletCommand :
                             call.io[k] \in {HwGetRequest(OidOutletState(o)),
                                             HwSetRequest(OidOutletCommand(o),
                                                          CommandValue(c))}
                        \/ call.io[k] = HwGetRequest(OidNumberOfOutlets)
                   /\ call.op = "initialize" => call.io # <<>>)
    /\ [][session' = session /\ client' = client]_vars

\* C18 witness: a facade made with simulate answered a state query after
\* its initialize, on the simulation
C18_SimulationAnswers ==
    /\ client = "CyberPowerPDU"
    /\ session = "CyberPowerPDUSimulation"
    /\ initialized
    /\ call.op = "get_outlet_state"
    /\ call.status = "returned"
    /\ call.io = <<>>

\* C19: get_bank_load of the Telnet client fails with NotImplementedError
\* for every bank and in every state of the session (before initialize,
\* after it, after close), and the step writes nothing to the stream and
\* reads nothing from it.
C19_BankLoadNotImplemented ==
    /\ [](\A bank \in BankArgs : TelnetBankLoad(bank).status = "NotImplementedError")
    /\ [][(client = "AsyncTelnetCyberPowerPDUHardware" /\ call'.op = "get_bank_load")
          => /\ call'.status = "NotImplementedError"
             /\ call'.io = <<>>
             /\ call' # call => UNCHANGED <<writer, reader, conn, pc, devVars>>]_vars

\* C19 witness: get_bank_load of the lowest bank value was called on a
\* closed session and failed with NotImplementedError
C19_RefusedAfterClose ==
    /\ client = "AsyncTelnetCyberPowerPDUHardware"
    /\ closed
    /\ call.op = "get_bank_load"
    /\ call.arg = -1
    /\ call.status = "NotImplementedError"

\* The end of the stream has arrived at the reader
StreamEnded == \E k \in DOMAIN reader : reader[k].mark = EndOfStream

\* C20: close of a connected Telnet session writes the exit line, then
\* reads the stream to its end, and only then closes the writer: the writer
\* is closed, and close returns, in a step that finds the end of the stream
\* after the exit line was written; while the end of the stream has not
\* arrived, close is still running and the connection is not released.
C20_CloseOrder ==
    /\ [](client = "AsyncTelnetCyberPowerPDUHardware"
          => /\ pc = "close_read"
                => /\ call.op = "close" /\ call.status = "running"
                   /\ call.io = <<WriteEvent("exit\r\n")>>
             /\ (pc = "close_read" /\ ~StreamEnded) => conn = "open"
             /\ (call.op = "close" /\ call.status = "returned")
                => /\ call.io = <<WriteEvent("exit\r\n"), ReadEvent(EndOfStream, <<>>)>>
                   /\ conn = "closed"
                   /\ StreamEnded)
    /\ [][client = "AsyncTelnetCyberPowerPDUHardware"
          => /\ (conn' = "closed" /\ conn # "closed")
                => /\ pc = "close_read" /\ StreamEnded
                   /\ call.io = <<WriteEvent("exit\r\n")>>
                   /\ call'.status = "returned"
             /\ (call.op = "close" /\ call.status = "running" /\ call'.status # "running")
                => /\ StreamEnded
                   /\ conn' = "closed"
             /\ (call'.op = "close" /\ call'.status = "running" /\ call.status # "running")
                => /\ conn # "unset" /\ conn' = conn
                   /\ conn = "open" => writer' = Append(writer, "exit\r\n")
                   /\ reader' = reader]_vars

\* C20 witness: close has returned after the exit line and the end of the
\* stream, which the device sent when it took the exit line
C20_Closed ==
    /\ client = "AsyncTelnetCyberPowerPDUHardware"
    /\ call.op = "close"
    /\ call.status = "returned"
    /\ conn = "closed"
    /\ dev_login = "closed"
    /\ Len(call.io) = 2

\* The text an out-of-range error has when it carries the offending value
\* and the valid range 1 to count
RangeText(what, value, count) ==
    "Invalid " \o what \o " value of: " \o ToString(value) \o ". Valid " \o what
    \o " values are 1 to " \o ToString(count)

\* The out-of-range errors of outlet indices carry the value and the range
OutletRangeErrorsCarryRange ==
    (/\ client \in {"AsyncCyberPowerPDUHardware", "AsyncTelnetCyberPowerPDUHardware"}
     /\ call.op \in IndexOps /\ call.status = "ValueError" /\ call.io = <<>>)
    => call.value.text = RangeText("outlet", call.arg, number_of_outlets)

\* C21: every out-of-range ValueError, for an outlet index and for a bank
\* index alike, carries the offending value and the valid range 1 to the
\* cached count.
C21_RangeErrorCarriesRange ==
    /\ OutletRangeErrorsCarryRange
    /\ (/\ client = "AsyncCyberPowerPDUHardware"
        /\ call.op = "get_bank_load" /\ call.status = "ValueError" /\ call.io = <<>>)
       => call.value.text = RangeText("bank", call.arg, number_of_banks)

\* A call that sent a request and ended on a failure of the communication:
\* the RuntimeError of get_data and set_data, the exceptions of the
\* hardware session's client
CommunicationFailed(c) ==
    /\ c.io # <<>>
    /\ c.status \in {"RuntimeError", "Timeout", "ErrorResponse"}

\* C22: a get or a set that fails ends its call and nothing else: the step
\* leaves the cached counts, the initialized state and the session as they
\* were and sends no request to a count address, and the next operation on
\* an index in range sends its one request as after a call that succeeded.
C22_FailureEndsOnlyTheCall ==
    [][(Active \in SnmpSessions)
       => /\ (CommunicationFailed(call') /\ call'.op # "initialize")
             => /\ number_of_outlets' = number_of_outlets
                /\ number_of_banks' = number_of_banks
                /\ initialized' = initialized
                /\ session' = session /\ client' = client
                /\ \A k \in DOMAIN call'.io : call'.io[k].oid \notin CountOids
          /\ (CommunicationFailed(call) /\ call' # call /\ call'.op \in IndexOps
              /\ 1 <= call'.arg /\ call'.arg <= number_of_outlets)
             => /\ Len(call'.io) = 1
                /\ call'.io[1].oid \in {OidOutletState(call'.arg),
                                        OidOutletCommand(call'.arg)}]_vars

\* C22 witness: on an initialized session a get has timed out and the
\* cached count is the one the device has
C22_GetTimedOut ==
    /\ Active \in SnmpSessions
    /\ initialized
    /\ number_of_outlets = MaxOutlets /\ dev_n = MaxOutlets
    /\ call.op = "get_outlet_state"
    /\ CommunicationFailed(call)
    /\ call.value.text = "No SNMP response received before timeout"

\* Every get of the last call was sent with the community public and every
\* set with private
CredentialsByKind ==
    \A k \in DOMAIN call.io :
      /\ call.io[k].kind = "get" => call.io[k].community = "public"
      /\ call.io[k].kind = "set" => call.io[k].community = "private"

\* C24: in the SNMP client and in the hardware session every get request is
\* sent with the community public and every set request with private; no
\* get is sent with private.
C24_ReadsArePublic == Active \in SnmpSessions => CredentialsByKind

\* The decimal with one fractional digit that is a tenth of the integer t
TenthOf(t) == [whole |-> t \div 10, tenths |-> t % 10]

\* The integers the device answers a get of bank's load with
WireLoads(bank) ==
    {r.value.v : r \in {x \in DeviceGetReplies(OidBankLoad(bank)) :
                          ~IsErrorReply(x) /\ x.value.type \in IntegerTypes}}

\* C25: get_bank_load(b) of the SNMP client with b in 1 .. number_of_banks
\* sends one get of the bank-load address of b and returns a tenth of the
\* integer the device answered (37 gives 3.7); with b outside it fails
\* with the ValueError and has sent nothing.
C25_BankLoadInAmps ==
    client = "AsyncCyberPowerPDUHardware"
    => /\ get_bank_load(Reply("", "", Snmp("Gauge32", 37))) =
            Return([whole |-> 3, tenths |-> 7])
       /\ \A bank \in BankArgs : \A r \in DeviceGetReplies(OidBankLoad(bank)) :
            IF 1 <= bank /\ bank <= number_of_banks
            THEN /\ SnmpBankLoad(bank, r).io = <<GetRequest(OidBankLoad(bank))>>
                 /\ (~IsErrorReply(r) /\ r.value.type \in IntegerTypes)
                    => SnmpBankLoad(bank, r).outcome = Return(TenthOf(r.value.v))
            ELSE /\ SnmpBankLoad(bank, r).outcome.status = "ValueError"
                 /\ SnmpBankLoad(bank, r).io = <<>>
       /\ call.op = "get_bank_load"
          => IF 1 <= call.arg /\ call.arg <= number_of_banks
             THEN /\ call.io = <<GetRequest(OidBankLoad(call.arg))>>
                  /\ call.status = "returned"
                     => \E t \in WireLoads(call.arg) : call.value.amps = TenthOf(t)
             ELSE call.status = "ValueError" /\ call.io = <<>>

\* C25 witness: the device answered 37 and get_bank_load returned 3.7
C25_ThreePointSeven ==
    /\ client = "AsyncCyberPowerPDUHardware"
    /\ call.op = "get_bank_load"
    /\ call.status = "returned"
    /\ call.value.amps = [whole |-> 3, tenths |-> 7]


----------------------------------------------------------------------------
(* C27: the Telnet get_outlet_state and the keys of the page it parses *)

\* A Telnet get_outlet_state whose index passed the range check and whose
\* page was read and parsed
TelnetStateReadDone ==
    /\ client = "AsyncTelnetCyberPowerPDUHardware"
    /\ initialized
    /\ call.op = "get_outlet_state"
    /\ call.arg \in 1 .. number_of_outlets
    /\ call.status \notin {"running", "IncompleteReadError"}

\* C27: on an initialized Telnet session with cached count n,
\* get_outlet_state(i) for i in 1 .. n returns a boolean and never fails on a
\* missing entry of the mapping parsed from the page it fetched
C27_AcceptedIndexIsKey ==
    TelnetStateReadDone => (call.status = "returned" /\ call.value = [NoValue EXCEPT !.on = call.value.on])

\* The part of C27 that holds: while no outlet carries a name of the
\* operator's, every accepted index is a key of the page
C27_KeyOfDefaultNames ==
    (TelnetStateReadDone /\ dev_named = {}) =>
        (call.status = "returned" /\ call.value = [NoValue EXCEPT !.on = call.value.on])


----------------------------------------------------------------------------
(* C26: which response a Telnet state query takes for its answer *)

\* The reads a call has made of the stream
ReadsOf(io) == Cardinality({k \in 1 .. Len(io) : io[k].kind = "read"})

\* In the shell the device answers every line with one response that ends in
\* the prompt, and a state query reads one response for every line it wrote.
\* So the responses unread or still to come when the query returns are as
\* many as when it began, and the page it returns answers a line of its own
\* exactly when it has read more responses than that.

\* C26: on one Telnet session with serialized calls, the page a state query
\* returns is the device's response to an "oltsta show" written during that
\* same call, never a response an earlier call left unread
C26_AnswerIsOwnResponse ==
    [][(/\ client = "AsyncTelnetCyberPowerPDUHardware"
        /\ pc = "query_read"
        /\ pc' = "idle"
        /\ call'.op # "initialize"
        /\ call'.status = "returned"
        /\ Len(call'.io) < MaxLog)
       => ReadsOf(call'.io) > Len(reader') + Len(writer')]_vars


----------------------------------------------------------------------------
(* C28: the operations after an initialize that failed *)

\* The operations C28 names
DispatchingOps == {"get_outlet_state", "send_outlet_command", "get_bank_load"}

\* C28: while no initialize has completed, a failed one included, none of
\* get_outlet_state, send_outlet_command and get_bank_load dispatches a
\* request: each behaves as on a client that was never initialized
C28_FailedInitializeDispatchesNothing ==
    (~initialized /\ Active # "CyberPowerPDUSimulation" /\ call.op \in DispatchingOps)
        => call.io = <<>>

\* The part of C28 that holds: the operations on outlets dispatch nothing
C28_OutletOpsDispatchNothing ==
    (/\ ~initialized
     /\ Active # "CyberPowerPDUSimulation"
     /\ call.op \in DispatchingOps \ {"get_bank_load"})
        => call.io = <<>>


----------------------------------------------------------------------------
(* C29: the requests of the hardware session's get_all_outlet_states *)

\* The outcomes get_outlet_state(outlet) may have on the hardware session
HwOutletOutcomes(outlet) ==
    {HwOutletState(outlet, reply).outcome :
        reply \in DeviceGetReplies(OidOutletState(outlet))}

\* The outlet-state get requests for the outlets 1 .. k, in increasing order
HwStateRequests(k) == [j \in 1 .. k |-> HwGetRequest(OidOutletState(j))]

\* C29: get_all_outlet_states on an SNMP session with count n sends the
\* outlet-state gets of the outlets 1, 2, ... in this order; when it returns
\* it has sent exactly n and gives n states; when the request of outlet k
\* fails (no response, an error status, an unexpected value) the call fails
\* with that error after exactly k requests and gives no list; with n = 0
\* it sends nothing
C29_AllStatesOneByOne ==
    (/\ Active = "CyberPowerPDUHardware"
     /\ initialized
     /\ call.op = "get_all_outlet_states")
        => /\ call.io = HwStateRequests(Len(call.io))
           /\ IF call.status = "returned"
              THEN /\ Len(call.io) = number_of_outlets
                   /\ Len(call.value.list) = number_of_outlets
              ELSE IF number_of_outlets = 0
              THEN call.io = <<>> /\ call.value.list = <<>>
              ELSE /\ Len(call.io) \in 1 .. number_of_outlets
                   /\ call.value.list = <<>>
                   /\ \E failed \in HwOutletOutcomes(Len(call.io)) :
                        /\ failed.status = call.status
                        /\ failed.status # "returned"
                        /\ failed.value = call.value.text

\* C29 witness: the request of the last outlet failed after the requests
\* before it were answered
C29_LastRequestFailed ==
    /\ Active = "CyberPowerPDUHardware"
    /\ initialized
    /\ number_of_outlets = MaxOutlets
    /\ call.op = "get_all_outlet_states"
    /\ call.status # "returned"
    /\ Len(call.io) = MaxOutlets


----------------------------------------------------------------------------
(* C30: the window's state machine and the object it holds *)

\* The object the window holds is one whose initialize() has returned
HeldIsInitialized == gui_pdu \in Attempts /\ pdu_initialized[gui_pdu]

\* Connected is entered from Connecting, in the step in which a
\* try_ip_address task whose initialize() returned comes to its end
EnteredOnSuccess ==
    (gui_state' = "Connected" /\ gui_state # "Connected")
        => /\ gui_state = "Connecting"
           /\ \E k \in Attempts :
                gui_tasks[k] # "done" /\ gui_tasks'[k] = "done" /\ pdu_initialized'[k]

C30_EnteredFromConnecting == [][EnteredOnSuccess]_vars

\* The second part of C30 holds with the simulated session, whose
\* initialize never suspends
C30_SimulatedHoldsInitialized ==
    (SIMULATE_HARDWARE /\ gui_state = "Connected") => HeldIsInitialized


----------------------------------------------------------------------------
(* C23: concurrent calls on one SNMP session *)

\* What task t's call gives when it has awaited the response reply
TaskEnds(t, reply) ==
    LET got == TaskDecoded(tasks[t], reply) IN
    Finished(tasks[t].op, tasks[t].arg, tasks[t].cmd,
             IF tasks[t].op = "initialize" /\ got.status = "returned" THEN Return(None)
             ELSE got,
             tasks[t].io)

\* C23: concurrent calls on one SNMP session do not interfere: under every
\* interleaving of the calls and of the device's answers, a call that sent
\* a request ends with what the device's response to its own request
\* decodes to
C23_OwnResponse ==
    \A t \in Tasks :
        (tasks[t].op # "none" /\ tasks[t].status # "running" /\ tasks[t].io # <<>>)
            => /\ answered[t].request = tasks[t].io[Len(tasks[t].io)]
               /\ tasks[t] = TaskEnds(t, answered[t].reply)

\* C23 witness: two get_outlet_state calls were in flight together and were
\* answered differently; the later call has returned its state while the
\* response to the earlier one lies unread
C23_AnsweredOutOfOrder ==
    /\ tasks[1].op = "get_outlet_state"
    /\ tasks[1].status = "running"
    /\ exchange[1].state = "answered"
    /\ tasks[2].op = "get_outlet_state"
    /\ tasks[2].status = "returned"
    /\ answered[1].reply # answered[2].reply
    /\ get_data(answered[1].reply).status = "returned"


----------------------------------------------------------------------------
(* C31: the outlet controls outside Connected                              *)

\* C31: in WaitingForIpAddress and in Connecting every outlet control is
\* disabled, also when a try_ip_address task started in Connecting ends
\* after textChanged has returned the machine to WaitingForIpAddress.
\* (Violated under GuiSpec: the late task enables the controls and its
\* success signal has no transition in WaitingForIpAddress.)
C31_ControlsEnabledOnlyInConnected ==
    gui_state \in {"WaitingForIpAddress", "Connecting"} => gui_enabled = 0

\* What does hold: every entry into WaitingForIpAddress or Connecting
\* leaves all outlet controls disabled
C31_DisabledOnEntry ==
    [][(gui_state' # gui_state /\ gui_state' # "Connected") => gui_enabled' = 0]_vars


----------------------------------------------------------------------------
(* C32: the LEDs outside Connected                                         *)

OutsideConnected == gui_state \in {"WaitingForIpAddress", "Connecting"}

\* A step in which a status read calls get_outlet_state on the held object
\* and the object takes the call: a timer's get_outlet_status, or the next
\* outlet of a get_outlet_statuses task
StatusReadIssued ==
    \/ \E c \in Clicks, i \in 1 .. 2 :
         /\ Len(gui_clicks[c].timers) = 2
         /\ gui_clicks[c].timers[i].pc = "armed"
         /\ gui_clicks'[c].timers[i].pc \in {"reading", "done"}
    \/ \E k \in Attempts :
         /\ gui_polling'[k] # gui_polling[k]
         /\ \/ gui_polling'[k].pc = "awaiting"
            \/ gui_polling[k].pc = "scheduled" /\ gui_polling'[k].pc = "done"
                 /\ gui_number_of_outlets > 0

\* C32: while the machine is in WaitingForIpAddress or Connecting every
\* outlet LED is unchecked, and no status read scheduled earlier by
\* send_outlet_command (its two timers) or by get_outlet_statuses issues a
\* PDU request once the machine has left Connected.
\* (Violated under GuiSpec: timers and tasks are never cancelled.)
C32_LedsOffOutsideConnected ==
    /\ [][StatusReadIssued => gui_state = "Connected"]_vars
    /\ [](OutsideConnected => gui_checked = {})

\* What does hold: every entry into WaitingForIpAddress or Connecting
\* leaves all LEDs unchecked
C32_UncheckedOnEntry ==
    [][(gui_state' # gui_state /\ gui_state' # "Connected") => gui_checked' = {}]_vars


----------------------------------------------------------------------------
(* C33: one button click                                                   *)

\* The calls and timers of click c so far: none before its task has
\* started; then one command, for the clicked control's outlet and the
\* button's command; two timers for that control once the command call has
\* returned, none while it is awaited or when it has failed
ClickAccount(c) ==
    LET click == gui_clicks[c] IN
    /\ click.pc \in {"none", "scheduled"} => click.sent = <<>>
    /\ click.pc \in {"awaiting", "returned", "failed"}
         => click.sent = <<[outlet |-> click.control,
                            command |-> IF click.state THEN "IMMEDIATE_ON"
                                        ELSE "IMMEDIATE_OFF"]>>
    /\ click.pc = "returned"
         => /\ Len(click.timers) = 2
            /\ \A i \in 1 .. 2 : click.timers[i].outlet = click.control
    /\ click.pc # "returned" => click.timers = <<>>

\* A step in which the command call of a click fails leaves every LED as it
\* was, and a step in which a status read of a click ends touches no LED
\* but the clicked control's
ClickLeds ==
    \A c \in Clicks :
      /\ (gui_clicks[c].pc # "failed" /\ gui_clicks'[c].pc = "failed")
           => gui_checked' = gui_checked
      /\ (gui_clicks'[c].timers # gui_clicks[c].timers)
           => gui_checked' \ {gui_clicks'[c].control} = gui_checked \ {gui_clicks'[c].control}

\* C33: each On/Off button click on outlet control k sends exactly one
\* command (IMMEDIATE_ON for On, IMMEDIATE_OFF for Off) for outlet k, and
\* exactly two status reads of that same outlet k are scheduled, both only
\* after the command call has returned; if the command call fails, no
\* status read is scheduled and the LED is left unchanged
C33_OneCommandTwoReads ==
    /\ [][ClickLeds]_vars
    /\ [](\A c \in Clicks : ClickAccount(c))

\* C33 witness: the Off button of control 2 was clicked on a hardware
\* session, the command call was awaited and returned, and both status reads
\* have run, the first one raising and the second one setting the LED
C33_ClickedAndRead ==
    /\ ~SIMULATE_HARDWARE
    /\ gui_clicks[1].pc = "returned"
    /\ gui_clicks[1].control = 2
    /\ ~gui_clicks[1].state
    /\ Len(gui_clicks[1].timers) = 2
    /\ gui_clicks[1].timers[1].pc = "raised"
    /\ gui_clicks[1].timers[2].pc = "done"
    /\ 2 \in gui_checked

\* C33, the failing case reached: a command call that was made and failed
C33_CommandFailed ==
    /\ gui_clicks[1].pc = "failed"
    /\ gui_clicks[1].sent # <<>>
    /\ gui_checked # {}

====
